---- MODULE Spec2Model ----
(***************************************************************************)
(* A model of the device discovery engine of Who's Home                    *)
(* (src/src/discovery.py, class DeviceDiscovery), of its background worker *)
(* (app.py) and of the database migrations (src/src/database.py).          *)
(*                                                                         *)
(* Text is modelled by what the code does with it.  A string that the code *)
(* splits at '.' (a gateway token, a network range) is the sequence of its *)
(* dot-separated parts; a line of a tool's output is the sequence of its   *)
(* whitespace-separated tokens.  An external command is a result record    *)
(* [st, out]: st is how subprocess.run ended and out is the captured       *)
(* stdout as a sequence of lines.                                          *)
(*                                                                         *)
(* The specifications share the variables:                                 *)
(*   SpecRange  get_network_range step by step, then the range parse of    *)
(*              scan_network_range;                                        *)
(*   SpecProbe  one call of ping_device, arping_device or                  *)
(*              get_mac_from_arp_table step by step;                       *)
(*   Spec       the threaded sweep of scan_network_range;                  *)
(*   SpecHost   one scan_ip call with the log_discovery calls it makes;    *)
(*   SpecStatus check_device_status step by step;                          *)
(*   SpecConfig update_settings running beside an operation that reads     *)
(*              self.settings;                                             *)
(*   SpecPopulate populate_arp_table step by step, up to the first scan_ip *)
(*              thread;                                                    *)
(*   SpecEngine any one of the operations of SpecRange, SpecProbe,         *)
(*              SpecHost, SpecStatus and SpecPopulate;                     *)
(*   SpecWorker the rounds of discovery_worker (app.py) over the tracked   *)
(*              devices of the database;                                   *)
(*   SpecMigrate DatabaseManager.initialize and run_migrations             *)
(*              (src/src/database.py) step by step.                        *)
(***************************************************************************)
EXTENDS Integers, Sequences, FiniteSets, TLC

VARIABLES
    settings,        \* self.settings: the keys the engine reads
    gnr_pc,          \* position inside get_network_range / the range parse
    cmd_i,           \* index of the next entry of route_commands
    gateway,         \* local gateway of get_network_range (NoGateway = None)
    route_runs,      \* history: the results of the route commands run so far
    network_range,   \* the value get_network_range returns
    scan_result,     \* how scan_network_range ended on its range (SpecRange)
    p_pc,            \* position inside the probe call (SpecProbe)
    p_call,          \* which probe is being called
    p_ip,            \* its ip_address argument
    p_runs,          \* history: the subprocesses the call started, in order
    p_ret,           \* the value the probe returned
    main_pc,         \* position of the main thread of scan_network_range
    next_ip,         \* index of the next host of network.hosts()
    threads,         \* local list threads: the hosts of the current batch
    join_i,          \* index into threads of the join loop
    thr,             \* per host: state of its scan_ip thread
    discovered,      \* discovered_devices
    sweep_ret,       \* the list scan_network_range returned
    scan_log,        \* history: per host, what its scan_ip call did
    started_seq,     \* history: the hosts in the order their threads started
    h_pc,            \* position of the single scan_ip call (SpecHost)
    h_env,           \* what the outside world answers to that call
    h_out,           \* what the call did
    h_calls,         \* history: the log_discovery calls it made
    h_backfill,      \* history: the probe calls of its MAC backfill
    st_pc,           \* position inside check_device_status (SpecStatus)
    st_mac,          \* its mac_address argument
    st_platform,     \* platform.system()
    st_ip,           \* local ip_address, from get_ip_from_mac
    st_mi,           \* index into discovery_methods of the loop of line 368
    st_ranges,       \* local common_ranges
    st_ri,           \* index into common_ranges of the loop of line 381
    st_hi,           \* index i of enumerate(network.hosts())
    st_probes,       \* history: the probes the call made, in order
    st_last,         \* history: what the last probe returned
    st_ret,          \* the value check_device_status returned
    op_pc,           \* position of the operation that reads settings
    op_reads,        \* history: the settings reads of that operation
    snapshots,       \* history: every value self.settings has had
    upd,             \* history: the last update_settings call, if any
    pop_pc,          \* position inside populate_arp_table (SpecPopulate)
    pop_next,        \* index of the next host of network.hosts()
    processes,       \* local list processes: the hosts of its Popen objects
    pop_wi,          \* index into processes of the wait loop
    proc,            \* per host: the ping process started for it
    wk_pc,           \* position inside discovery_worker (SpecWorker)
    wk_round,        \* number of rounds of its loop begun so far
    stored,          \* table tracked_devices: is_online, last_seen per MAC
    tracked,         \* local list tracked of the round
    wk_i,            \* index into tracked of the device loop
    updated_devices, \* local list updated_devices of the round
    wk_clock,        \* datetime.now(), counted in calls
    wk_writes,       \* history: the status writes of the round
    wk_emitted,      \* history: the devices of the update the round emitted
    mg_pc,           \* position inside initialize / run_migrations (SpecMigrate)
    mg_inits,        \* number of initialize() calls begun so far
    recorded,        \* table migrations: the versions recorded, in row order
    schema,          \* the migrations whose changes the database holds
    mg_current,      \* local current_version of run_migrations
    mg_start,        \* history: the database as the call found it
    mg_applied       \* history: the migrations the call applied, in order

vars == <<settings, gnr_pc, cmd_i, gateway, route_runs, network_range,
          scan_result, p_pc, p_call, p_ip, p_runs, p_ret, main_pc, next_ip,
          threads, join_i, thr, discovered, sweep_ret, scan_log,
          started_seq, h_pc, h_env, h_out, h_calls, h_backfill, st_pc, st_mac,
          st_platform, st_ip, st_mi, st_ranges, st_ri, st_hi, st_probes,
          st_last, st_ret, op_pc, op_reads, snapshots, upd, pop_pc, pop_next,
          processes, pop_wi, proc, wk_pc, wk_round, stored, tracked, wk_i,
          updated_devices, wk_clock, wk_writes, wk_emitted, mg_pc, mg_inits,
          recorded, schema, mg_current, mg_start, mg_applied>>

rangeVars == <<gnr_pc, cmd_i, gateway, route_runs, network_range, scan_result>>
probeVars == <<p_pc, p_call, p_ip, p_runs, p_ret>>
sweepVars == <<main_pc, next_ip, threads, join_i, thr, discovered, sweep_ret,
               scan_log, started_seq>>
hostVars == <<h_pc, h_env, h_out, h_calls, h_backfill>>
statusVars == <<st_pc, st_mac, st_platform, st_ip, st_mi, st_ranges, st_ri,
                st_hi, st_probes, st_last, st_ret>>
configVars == <<op_pc, op_reads, snapshots, upd>>
populateVars == <<pop_pc, pop_next, processes, pop_wi, proc>>
workerVars == <<wk_pc, wk_round, stored, tracked, wk_i, updated_devices,
                wk_clock, wk_writes, wk_emitted>>
migrateVars == <<mg_pc, mg_inits, recorded, schema, mg_current, mg_start,
                 mg_applied>>

-----------------------------------------------------------------------------
(* Bounds of the model.                                                    *)

\* Longest stdout, in lines, that a simulated command prints.
MaxLines == 2

\* Largest ping_timeout / arping_timeout drawn.
MaxTimeout == 2

\* The batch limit of the sweep, 'if len(threads) >= 50' (line 333), scaled
\* down: the sweep is checked for this limit over a range of one host more
\* than a full batch, so that a second batch has to wait for the first.
BatchLimit == 2

NoValue == "None"
NoGateway == <<>>

-----------------------------------------------------------------------------
(* Text helpers.                                                           *)

\* The parts that consist of decimal digits only (regex \d+).
DigitParts == {"0", "1", "5", "10", "168", "192", "255", "300"}

\* The parts ipaddress accepts as an octet.
OctetParts == {"0", "1", "5", "10", "168", "192", "255"}

\* The last part of a CIDR string 'a.b.c.d/len' that ipaddress accepts.
CidrTails == {"0/24", "0/30"}

EndsWithZero(p) == p \in {"0", "10", "300"}
StartsWithZero(p) == p \in {"0", "0/24", "0/30"}

\* '0.0.0.0' in token, on the dot-separated parts of the token.
TokenHasZeroAddr(tok) ==
    \E i \in 1..(Len(tok) - 3) :
        /\ EndsWithZero(tok[i])
        /\ tok[i + 1] = "0"
        /\ tok[i + 2] = "0"
        /\ StartsWithZero(tok[i + 3])

\* '0.0.0.0' in line
HasZeroAddr(line) == \E i \in 1..Len(line) : TokenHasZeroAddr(line[i])

\* 'default via' in line
HasDefaultVia(line) ==
    \E i \in 1..(Len(line) - 1) :
        line[i] = <<"default">> /\ line[i + 1] = <<"via">>

\* 'Gateway' in line
HasGatewayWord(line) == \E i \in 1..Len(line) : line[i] = <<"Gateway">>

\* re.match(r'^\d+\.\d+\.\d+\.\d+$', part)
IsDottedQuad(tok) ==
    Len(tok) = 4 /\ \A i \in 1..4 : tok[i] \in DigitParts

ZeroAddr == <<"0", "0", "0", "0">>

\* ipaddress.ip_network(s, strict=False) does not raise
IsValidNetwork(s) ==
    /\ Len(s) = 4
    /\ \A i \in 1..3 : s[i] \in OctetParts
    /\ s[4] \in CidrTails \cup OctetParts

\* an IPv4 /24 block 'a.b.c.0/24'
IsSlash24(s) == IsValidNetwork(s) /\ s[4] = "0/24"

-----------------------------------------------------------------------------
(* get_network_range: the gateway search over one command's stdout.        *)

\* The inner loop of the third branch: the first part that looks like a
\* dotted quad and is not 0.0.0.0 becomes the gateway.
RECURSIVE ScanParts(_, _, _)
ScanParts(line, i, gw) ==
    IF i > Len(line) THEN gw
    ELSE IF IsDottedQuad(line[i]) /\ line[i] # ZeroAddr THEN line[i]
    ELSE ScanParts(line, i + 1, gw)

\* One iteration of 'for line in result.stdout.split(...)': the new value
\* of gateway and whether the line loop was left with break.
ScanLine(line, gw) ==
    IF HasDefaultVia(line)
    THEN IF Len(line) >= 3 THEN [gw |-> line[3], brk |-> TRUE]
                           ELSE [gw |-> gw, brk |-> FALSE]
    ELSE IF HasZeroAddr(line) /\ ~HasGatewayWord(line)
    THEN IF Len(line) >= 3 THEN [gw |-> line[3], brk |-> TRUE]
                           ELSE [gw |-> gw, brk |-> FALSE]
    ELSE IF HasZeroAddr(line)
    THEN [gw |-> ScanParts(line, 1, gw), brk |-> FALSE]
    ELSE [gw |-> gw, brk |-> FALSE]

\* The line loop over a whole stdout, from line i on.
RECURSIVE ScanLines(_, _, _)
ScanLines(out, i, gw) ==
    IF i > Len(out) THEN gw
    ELSE LET r == ScanLine(out[i], gw)
         IN  IF r.brk THEN r.gw ELSE ScanLines(out, i + 1, r.gw)

common_ranges == << <<"192", "168", "1", "0/24">>,
                    <<"192", "168", "0", "0/24">>,
                    <<"10", "0", "0", "0/24">> >>

\* The conversion falling back to the second entry of common_ranges.
GatewayToRange_NextFallback(gw) ==
    IF gw # NoGateway /\ Len(gw) = 4
    THEN <<gw[1], gw[2], gw[3], "0/24">>
    ELSE common_ranges[2]

\* 'Convert gateway to network range', lines 76-92: the /24 of a gateway
\* with four dot-separated parts; otherwise ValueError is raised and the
\* except clause returns common_ranges[0].
GatewayToRange(gw) ==
    IF gw # NoGateway /\ Len(gw) = 4
    THEN <<gw[1], gw[2], gw[3], "0/24">>
    ELSE common_ranges[1]

route_commands == <<"ip route show default", "route print", "netstat -rn">>

-----------------------------------------------------------------------------
(* The simulated environment of get_network_range.                         *)

RouteLines ==
    { << <<"default">>, <<"via">>, <<"192", "168", "1", "1">> >>,
      << <<"default">>, <<"via">>, <<"gw", "home", "example", "lan">> >>,
      << <<"default">>, <<"via">> >>,
      << ZeroAddr, ZeroAddr, <<"10", "0", "0", "1">> >>,
      << ZeroAddr, <<"192", "168", "1", "1">>, ZeroAddr >>,
      << <<"10", "0", "0", "0">>, <<"255", "0", "0", "0">>, <<"On-link">> >>,
      << <<"Gateway">>, ZeroAddr, <<"10", "0", "0", "5">> >>,
      << <<"Destination">>, <<"Gateway">>, <<"Genmask">> >> }

RECURSIVE SeqsUpTo(_, _)
SeqsUpTo(S, n) ==
    IF n = 0 THEN {<<>>}
    ELSE LET shorter == SeqsUpTo(S, n - 1)
         IN  shorter \cup {Append(s, x) : s \in shorter, x \in S}

RouteOutputs == SeqsUpTo(RouteLines, MaxLines)

\* How subprocess.run can end: exit status 0 with some stdout, a nonzero
\* exit status, FileNotFoundError, TimeoutExpired, any other exception.
FailStatuses == {"nonzero", "notfound", "timeout", "oserror"}

Failed(s) == [st |-> s, out |-> <<>>]

RouteResults ==
    {[st |-> "ok", out |-> o] : o \in RouteOutputs}
        \cup {Failed(s) : s \in FailStatuses}

\* The values of settings['network_range'] drawn: auto, a CIDR block,
\* a malformed string.
AutoRange == <<"auto">>
ExplicitCidr == <<"10", "0", "0", "0/30">>
BadRange == <<"not-a-cidr">>
RangeSettings == {AutoRange, ExplicitCidr, BadRange}

DefaultSettings ==
    [network_range |-> AutoRange,
     discovery_methods |-> <<"ping", "arping">>,
     ping_timeout |-> 1,
     arping_timeout |-> 2]

-----------------------------------------------------------------------------
(* get_network_range, step by step (SpecRange).                            *)

\* Lines 35-37 and 94: read the setting; an explicit range is returned as is.
GnrStart ==
    /\ gnr_pc = "start"
    /\ IF settings.network_range = AutoRange
       THEN /\ gnr_pc' = "loop"
            /\ UNCHANGED network_range
       ELSE /\ gnr_pc' = "returned"
            /\ network_range' = settings.network_range
    /\ UNCHANGED <<settings, cmd_i, gateway, route_runs, scan_result>>
    /\ UNCHANGED <<probeVars, sweepVars,
                   hostVars, statusVars, configVars, populateVars,
                   workerVars, migrateVars>>

\* The same loop with an except clause that lets other errors through.
RouteStep_Propagates(res, i) ==
    IF res.st = "oserror"
    THEN [pc |-> "raised", gw |-> NoGateway, range |-> NoValue]
    ELSE LET gw == IF res.st = "ok" THEN ScanLines(res.out, 1, NoGateway)
                                    ELSE NoGateway
         IN  IF gw # NoGateway \/ i = Len(route_commands)
             THEN [pc |-> "convert", gw |-> gw, range |-> NoValue]
             ELSE [pc |-> "loop", gw |-> gw, range |-> NoValue]

\* What one route command does to the loop: lines 50-74 and 87-92.
\* FileNotFoundError and TimeoutExpired go on to the next command; any
\* other exception leaves the loop for the outer except clause.
RouteStep(res, i) ==
    IF res.st = "oserror"
    THEN [pc |-> "returned", gw |-> NoGateway, range |-> common_ranges[1]]
    ELSE LET gw == IF res.st = "ok" THEN ScanLines(res.out, 1, NoGateway)
                                    ELSE NoGateway
         IN  IF gw # NoGateway \/ i = Len(route_commands)
             THEN [pc |-> "convert", gw |-> gw, range |-> NoValue]
             ELSE [pc |-> "loop", gw |-> gw, range |-> NoValue]

GnrRunCmd ==
    /\ gnr_pc = "loop"
    /\ \E res \in RouteResults :
         LET s == RouteStep(res, cmd_i)
         IN  /\ route_runs' = Append(route_runs,
                                     [cmd |-> route_commands[cmd_i], res |-> res])
             /\ gnr_pc' = s.pc
             /\ gateway' = s.gw
             /\ cmd_i' = cmd_i + 1
             /\ network_range' =
                    IF s.pc = "returned" THEN s.range ELSE network_range
    /\ UNCHANGED <<settings, scan_result>>
    /\ UNCHANGED <<probeVars, sweepVars,
                   hostVars, statusVars, configVars, populateVars,
                   workerVars, migrateVars>>

\* Lines 76-94: derive the /24, or fall back to common_ranges[0].
GnrConvert ==
    /\ gnr_pc = "convert"
    /\ network_range' = GatewayToRange(gateway)
    /\ gnr_pc' = "returned"
    /\ UNCHANGED <<settings, cmd_i, gateway, route_runs, scan_result>>
    /\ UNCHANGED <<probeVars, sweepVars,
                   hostVars, statusVars, configVars, populateVars,
                   workerVars, migrateVars>>

\* scan_network_range on the resolved range, lines 253-256 and 350-352:
\* ip_network either parses it (the sweep goes on) or raises ValueError,
\* which the except clause turns into an empty list.
ParseRange_Propagates(range) ==
    IF IsValidNetwork(range) THEN "scanning" ELSE "raised"

ParseRange(range) ==
    IF IsValidNetwork(range) THEN "scanning" ELSE "returned_empty"

ScanParseRange ==
    /\ gnr_pc = "returned"
    /\ gnr_pc' = "parsed"
    /\ scan_result' = ParseRange(network_range)
    /\ UNCHANGED <<settings, cmd_i, gateway, route_runs, network_range>>
    /\ UNCHANGED <<probeVars, sweepVars,
                   hostVars, statusVars, configVars, populateVars,
                   workerVars, migrateVars>>

IdleProbe ==
    /\ p_pc = "idle" /\ p_call = NoValue /\ p_ip = <<>>
    /\ p_runs = <<>> /\ p_ret = NoValue

IdleSweep ==
    /\ main_pc = "idle" /\ next_ip = 0 /\ threads = <<>> /\ join_i = 0
    /\ thr = <<>> /\ discovered = <<>> /\ sweep_ret = NoValue
    /\ scan_log = <<>> /\ started_seq = <<>>

IdleRange ==
    /\ gnr_pc = "idle" /\ cmd_i = 1 /\ gateway = NoGateway
    /\ route_runs = <<>> /\ network_range = NoValue /\ scan_result = NoValue

IdleHost ==
    /\ h_pc = "idle" /\ h_env = NoValue /\ h_out = NoValue /\ h_calls = <<>>
    /\ h_backfill = <<>>

IdleStatus ==
    /\ st_pc = "idle" /\ st_mac = NoValue /\ st_platform = NoValue
    /\ st_ip = NoValue /\ st_mi = 0 /\ st_ranges = <<>> /\ st_ri = 0
    /\ st_hi = 0 /\ st_probes = <<>> /\ st_last = NoValue /\ st_ret = NoValue

IdleConfig ==
    /\ op_pc = "idle" /\ op_reads = <<>> /\ snapshots = <<>> /\ upd = <<>>

IdlePopulate ==
    /\ pop_pc = "idle" /\ pop_next = 0 /\ processes = <<>> /\ pop_wi = 0
    /\ proc = <<>>

IdleWorker ==
    /\ wk_pc = "idle" /\ wk_round = 0 /\ stored = <<>> /\ tracked = <<>>
    /\ wk_i = 0 /\ updated_devices = <<>> /\ wk_clock = 0
    /\ wk_writes = <<>> /\ wk_emitted = <<>>

IdleMigrate ==
    /\ mg_pc = [at |-> "idle", i |-> 0] /\ mg_inits = 0 /\ recorded = <<>> /\ schema = {}
    /\ mg_current = 0 /\ mg_start = NoValue /\ mg_applied = <<>>

InitRange ==
    /\ settings \in {[DefaultSettings EXCEPT !.network_range = r] :
                        r \in RangeSettings}
    /\ gnr_pc = "start"
    /\ cmd_i = 1
    /\ gateway = NoGateway
    /\ route_runs = <<>>
    /\ network_range = NoValue
    /\ scan_result = NoValue
    /\ IdleProbe
    /\ IdleSweep
    /\ IdleHost
    /\ IdleStatus
    /\ IdleConfig
    /\ IdlePopulate
    /\ IdleWorker
    /\ IdleMigrate

NextRange == GnrStart \/ GnrRunCmd \/ GnrConvert \/ ScanParseRange

SpecRange == InitRange /\ [][NextRange]_vars

-----------------------------------------------------------------------------
(* The reachability probes: ping_device and arping_device (SpecProbe).     *)

\* A MAC address as text: which address it is, its separator and its case.
NoMac == [id |-> "none", sep |-> "none", case |-> "none"]
MacTokens == {[id |-> "A", sep |-> "-", case |-> "lower"],
              [id |-> "A", sep |-> ":", case |-> "lower"],
              [id |-> "B", sep |-> ":", case |-> "upper"]}

\* mac_match.group(1).replace('-', ':').upper()
NormalizeMac(m) == [id |-> m.id, sep |-> ":", case |-> "upper"]

\* mac_address.upper() / found_mac.upper()
Upper(m) == [m EXCEPT !.case = "upper"]

\* Addresses of one /24 are told apart by the decimal digits of their last
\* octet: 'x.y.z.1' is a substring of a line that starts 'x.y.z.10'.
Addr1 == <<1>>
Addr10 == <<1, 0>>
ProbeAddrs == {Addr1, Addr10}

\* ip_address in line, for a neighbor-table line about address line.addr
IpInLine(ip, line) ==
    /\ Len(ip) <= Len(line.addr)
    /\ SubSeq(line.addr, 1, Len(ip)) = ip

ArpLines == [addr : ProbeAddrs, mac : MacTokens \cup {NoMac}]
ArpOutputs == SeqsUpTo(ArpLines, MaxLines)
ArpResults ==
    {[st |-> "ok", out |-> o] : o \in ArpOutputs}
        \cup {Failed(s) : s \in FailStatuses}

\* ping prints something or nothing, whatever its exit status.
PingOutputs == {<<>>, << <<"1", "received">> >>}
PingResults ==
    {[st |-> s, out |-> o] : s \in {"ok", "nonzero"}, o \in PingOutputs}
        \cup {Failed(s) : s \in FailStatuses}

\* re.search of the colon pattern in line.lower()
ColonMatch(line) == line.mac # NoMac /\ line.mac.sep = ":"
\* re.search of the hyphen pattern in line.lower()
HyphenMatch(line) == line.mac # NoMac /\ line.mac.sep = "-"

Ret(online, mac) == [online |-> online, mac |-> mac]

\* Lines 130-135: the first line of arping's stdout with a colon MAC.
RECURSIVE ArpingParse(_, _)
ArpingParse(out, i) ==
    IF i > Len(out) THEN Ret(TRUE, NoMac)
    ELSE IF ColonMatch(out[i]) THEN Ret(TRUE, NormalizeMac(out[i].mac))
    ELSE ArpingParse(out, i + 1)

\* Lines 144-157: the first line of arp's stdout that contains the address
\* and a MAC in hyphen or colon form; online is FALSE when there is none.
RECURSIVE ArpParse(_, _, _)
ArpParse(out, ip, i) ==
    IF i > Len(out) THEN Ret(FALSE, NoMac)
    ELSE IF IpInLine(ip, out[i]) /\ (HyphenMatch(out[i]) \/ ColonMatch(out[i]))
    THEN Ret(TRUE, NormalizeMac(out[i].mac))
    ELSE ArpParse(out, ip, i + 1)

\* The same with FileNotFoundError of the first form passed over.
PingStep_FallbackOnMissing(pc, res) ==
    IF res.st = "ok" THEN [pc |-> "returned", ret |-> Ret(TRUE, NoMac)]
    ELSE IF res.st \in {"nonzero", "notfound"} /\ pc = "ping_unix"
    THEN [pc |-> "ping_windows", ret |-> Ret(FALSE, NoMac)]
    ELSE [pc |-> "returned", ret |-> Ret(FALSE, NoMac)]

\* ping_device, lines 102-117: what the result of one invocation leads to.
\* Only a completed invocation with a nonzero status goes on to the
\* Windows-style form; every exception returns False.
PingStep(pc, res) ==
    IF res.st = "ok" THEN [pc |-> "returned", ret |-> Ret(TRUE, NoMac)]
    ELSE IF res.st = "nonzero" /\ pc = "ping_unix"
    THEN [pc |-> "ping_windows", ret |-> Ret(FALSE, NoMac)]
    ELSE [pc |-> "returned", ret |-> Ret(FALSE, NoMac)]

\* The same with an absent arping tool ending the call.
ArpingStep_MissingToolFails(res) ==
    IF res.st = "ok" THEN [pc |-> "returned", ret |-> ArpingParse(res.out, 1)]
    ELSE IF res.st = "nonzero"
    THEN [pc |-> "arp_a", ret |-> Ret(FALSE, NoMac)]
    ELSE [pc |-> "returned", ret |-> Ret(FALSE, NoMac)]

\* arping_device, lines 125-137 and 163-167: what the arping run leads to.
\* Status 0 returns; FileNotFoundError is passed over, and a nonzero
\* status falls out of the if, so both reach the arp loop of line 140.
ArpingStep(res) ==
    IF res.st = "ok" THEN [pc |-> "returned", ret |-> ArpingParse(res.out, 1)]
    ELSE IF res.st \in {"notfound", "nonzero"}
    THEN [pc |-> "arp_a", ret |-> Ret(FALSE, NoMac)]
    ELSE [pc |-> "returned", ret |-> Ret(FALSE, NoMac)]

\* arping_device, lines 140-167: what one arp command of the fallback loop
\* leads to.
ArpFallbackStep(pc, res, ip) ==
    LET next == IF pc = "arp_a" THEN "arp_n" ELSE "returned"
        hit == ArpParse(res.out, ip, 1)
    IN  IF res.st = "ok" /\ hit.online THEN [pc |-> "returned", ret |-> hit]
        ELSE IF res.st \in {"ok", "nonzero", "notfound"}
        THEN [pc |-> next, ret |-> Ret(FALSE, NoMac)]
        ELSE [pc |-> "returned", ret |-> Ret(FALSE, NoMac)]

\* Line 173: arp_commands of get_mac_from_arp_table.
arp_commands == <<"arp -n", "arp -a", "ip neighbor">>

\* Line 181: timeout=2
ArpTableTimeout == 2

\* The timeout= argument of each subprocess.run, lines 103, 110, 127, 142
\* and 181.
Budget(cmd) ==
    IF cmd \in {"ping_unix", "ping_windows"} THEN settings.ping_timeout + 1
    ELSE IF cmd = "arping" THEN settings.arping_timeout + 1
    ELSE IF cmd \in {arp_commands[i] : i \in DOMAIN arp_commands}
    THEN ArpTableTimeout
    ELSE settings.arping_timeout

\* A subprocess that is not found is never started and waits for nothing.
Run(cmd, res) ==
    [cmd |-> cmd, res |-> res,
     budget |-> IF res.st = "notfound" THEN 0 ELSE Budget(cmd)]

\* The history keeps the stdout of the latest run only.
ForgetOutputs(runs) ==
    [j \in DOMAIN runs |-> [runs[j] EXCEPT !.res.out = <<>>]]

PingRun ==
    /\ p_pc \in {"ping_unix", "ping_windows"}
    /\ \E res \in PingResults :
         LET s == PingStep(p_pc, res)
         IN  /\ p_runs' = Append(p_runs, Run(p_pc, res))
             /\ p_pc' = s.pc
             /\ p_ret' = s.ret
    /\ UNCHANGED <<settings, p_call, p_ip>>
    /\ UNCHANGED <<rangeVars, sweepVars,
                   hostVars, statusVars, configVars, populateVars,
                   workerVars, migrateVars>>

ArpingRun ==
    /\ p_pc = "arping"
    /\ \E res \in ArpResults :
         LET s == ArpingStep(res)
         IN  /\ p_runs' = Append(p_runs, Run("arping", res))
             /\ p_pc' = s.pc
             /\ p_ret' = s.ret
    /\ UNCHANGED <<settings, p_call, p_ip>>
    /\ UNCHANGED <<rangeVars, sweepVars,
                   hostVars, statusVars, configVars, populateVars,
                   workerVars, migrateVars>>

ArpFallbackRun ==
    /\ p_pc \in {"arp_a", "arp_n"}
    /\ \E res \in ArpResults :
         LET s == ArpFallbackStep(p_pc, res, p_ip)
         IN  /\ p_runs' = Append(ForgetOutputs(p_runs),
                               Run(p_pc, res))
             /\ p_pc' = s.pc
             /\ p_ret' = s.ret
    /\ UNCHANGED <<settings, p_call, p_ip>>
    /\ UNCHANGED <<rangeVars, sweepVars,
                   hostVars, statusVars, configVars, populateVars,
                   workerVars, migrateVars>>

-----------------------------------------------------------------------------
(* get_mac_from_arp_table, step by step (SpecProbe).                       *)

\* A line of a neighbor table: the address it is about, the MAC it shows,
\* and whether the token before the MAC is 'lladdr', which 'ip neighbor'
\* prints before a colon-separated MAC.
NeighLines ==
    {l \in [addr : ProbeAddrs, mac : MacTokens \cup {NoMac},
            lladdr : BOOLEAN] :
        l.lladdr => (l.mac # NoMac /\ l.mac.sep = ":")}
NeighOutputs == SeqsUpTo(NeighLines, MaxLines)
NeighResults ==
    {[st |-> "ok", out |-> o] : o \in NeighOutputs}
        \cup {Failed(s) : s \in FailStatuses}

\* Lines 199-206: 'lladdr' in line and the token after it is a colon MAC.
LladdrMatch(line) == line.lladdr /\ line.mac # NoMac /\ line.mac.sep = ":"

\* The same with the hyphen form upper-cased but not rewritten.
GetMacLine_KeepsHyphen(line) ==
    IF line.mac # NoMac THEN Upper(line.mac) ELSE NoMac

\* Lines 185-206: the MAC the three patterns find in one line, in the
\* order hyphen, colon, lladdr; NoMac when none matches.
GetMacLine(line) ==
    IF HyphenMatch(line) THEN NormalizeMac(line.mac)
    ELSE IF ColonMatch(line) THEN Upper(line.mac)
    ELSE IF LladdrMatch(line) THEN Upper(line.mac)
    ELSE NoMac

\* Lines 183-206: the line loop over one stdout, from line i on.
RECURSIVE GetMacParse(_, _, _)
GetMacParse(out, ip, i) ==
    IF i > Len(out) THEN Ret(FALSE, NoMac)
    ELSE IF IpInLine(ip, out[i]) /\ GetMacLine(out[i]) # NoMac
    THEN Ret(TRUE, GetMacLine(out[i]))
    ELSE GetMacParse(out, ip, i + 1)

\* The same with FileNotFoundError ending the call.
GetMacStep_StopsOnMissing(i, res, ip) ==
    LET hit == GetMacParse(res.out, ip, 1)
        last == i = Len(arp_commands)
    IN  IF res.st = "ok" /\ hit.online THEN [pc |-> "returned", ret |-> hit]
        ELSE IF res.st \in {"ok", "nonzero", "timeout"} /\ ~last
        THEN [pc |-> arp_commands[i + 1], ret |-> Ret(FALSE, NoMac)]
        ELSE [pc |-> "returned", ret |-> Ret(FALSE, NoMac)]

\* Lines 179-214: what command i of arp_commands leads to.  A match
\* returns; TimeoutExpired, FileNotFoundError, a nonzero status and an
\* output without a match go on to the next command; any other exception
\* reaches the outer except clause.
GetMacStep(i, res, ip) ==
    LET hit == GetMacParse(res.out, ip, 1)
        last == i = Len(arp_commands)
    IN  IF res.st = "ok" /\ hit.online THEN [pc |-> "returned", ret |-> hit]
        ELSE IF res.st \in {"ok", "nonzero", "notfound", "timeout"} /\ ~last
        THEN [pc |-> arp_commands[i + 1], ret |-> Ret(FALSE, NoMac)]
        ELSE [pc |-> "returned", ret |-> Ret(FALSE, NoMac)]

GetMacRun ==
    /\ p_call = "get_mac_from_arp_table"
    /\ \E i \in DOMAIN arp_commands :
         /\ p_pc = arp_commands[i]
         /\ \E res \in NeighResults :
              LET s == GetMacStep(i, res, p_ip)
              IN  /\ p_runs' = Append(ForgetOutputs(p_runs), Run(p_pc, res))
                  /\ p_pc' = s.pc
                  /\ p_ret' = s.ret
    /\ UNCHANGED <<settings, p_call, p_ip>>
    /\ UNCHANGED <<rangeVars, sweepVars,
                   hostVars, statusVars, configVars, populateVars,
                   workerVars, migrateVars>>

InitProbe ==
    /\ \E t \in 1..MaxTimeout :
         \/ /\ p_call = "ping_device"
            /\ settings = [DefaultSettings EXCEPT !.ping_timeout = t]
         \/ /\ p_call = "arping_device"
            /\ settings = [DefaultSettings EXCEPT !.arping_timeout = t]
         \/ /\ p_call = "get_mac_from_arp_table"
            /\ settings = DefaultSettings
    /\ p_pc = IF p_call = "ping_device" THEN "ping_unix"
              ELSE IF p_call = "arping_device" THEN "arping"
              ELSE arp_commands[1]
    /\ p_ip \in ProbeAddrs
    /\ p_runs = <<>>
    /\ p_ret = Ret(FALSE, NoMac)
    /\ IdleRange
    /\ IdleSweep
    /\ IdleHost
    /\ IdleStatus
    /\ IdleConfig
    /\ IdlePopulate
    /\ IdleWorker
    /\ IdleMigrate

NextProbe == PingRun \/ ArpingRun \/ ArpFallbackRun \/ GetMacRun

SpecProbe == InitProbe /\ [][NextProbe]_vars

-----------------------------------------------------------------------------
(* scan_ip: the decision procedure for one host (lines 265-328).           *)

\* The values ping_device can return (online only; it has no MAC).
PingReturns ==
    {PingStep(pc, r).ret :
        <<pc, r>> \in {x \in {"ping_unix", "ping_windows"} \X PingResults :
                          PingStep(x[1], x[2]).pc = "returned"}}

\* In a sweep every neighbor-table line and arping reply about a host
\* carries the one MAC of that host.
HostMacTokens == {m \in MacTokens : m.id = "A"}
HostResults == {r \in ArpResults :
                   \A i \in 1..Len(r.out) :
                       r.out[i].mac \in HostMacTokens \cup {NoMac}}

\* The values arping_device can return for a host.
ArpingReturns ==
    {ArpingStep(r).ret :
        r \in {x \in HostResults : ArpingStep(x).pc = "returned"}}
      \cup {ArpFallbackStep(pc, r, Addr1).ret :
              <<pc, r>> \in {x \in {"arp_a", "arp_n"} \X HostResults :
                                ArpFallbackStep(x[1], x[2], Addr1).pc = "returned"}}

\* The values get_mac_from_arp_table can return for a host (lines 190,
\* 196, 206, 210, 214): a normalized MAC, or (False, None).
GetMacReturns ==
    {GetMacStep(x[1], x[2], Addr1).ret :
        x \in {y \in (DOMAIN arp_commands) \X
                      {r \in NeighResults :
                          \A i \in 1..Len(r.out) :
                              r.out[i].mac \in HostMacTokens \cup {NoMac}} :
                  GetMacStep(y[1], y[2], Addr1).pc = "returned"}}

\* socket.gethostbyaddr: a name, socket.herror, or another OSError
\* (socket.gaierror, socket.timeout).
DnsOutcomes == {"name", "herror", "oserror"}

\* db_manager.log_discovery (database.py lines 449-463) as scan_ip sees
\* it: it returns (the row was written, or the INSERT failed and the error
\* was logged and swallowed), or get_connection, which is outside the try,
\* raises.  "no_db_manager" is an engine built without a collaborator
\* (line 319: 'if self.db_manager').
DbOutcomes == {"written", "insert_error", "connect_error", "no_db_manager"}

\* What the outside world answers to one scan_ip call: the result of the
\* ping method, of get_mac_from_arp_table after it, of the arping method,
\* of the backfill arping, of the final get_mac_from_arp_table, of the
\* reverse lookup and of the persistence collaborator.
ScanEnvs ==
    [ping : PingReturns, arp1 : GetMacReturns, arping : ArpingReturns,
     arping_bf : ArpingReturns, arp2 : GetMacReturns,
     dns : DnsOutcomes, db : DbOutcomes]

Tried(m, r) == [method |-> m, online |-> r]

DeviceInfo(online, method, mac, hostname) ==
    [is_online |-> online, discovery_method |-> method,
     mac_address |-> mac, hostname |-> hostname]

\* The same loop without the break statements: every method is tried and
\* the last one that answers is recorded.
RECURSIVE TryMethods_NoBreak(_, _, _, _, _)
TryMethods_NoBreak(methods, i, env, tried, info) ==
    IF i > Len(methods) THEN [info |-> info, tried |-> tried]
    ELSE IF methods[i] = "ping"
    THEN TryMethods_NoBreak(methods, i + 1, env,
            Append(tried, Tried("ping", env.ping.online)),
            IF env.ping.online
            THEN DeviceInfo(TRUE, "ping", env.arp1.mac, NoValue)
            ELSE info)
    ELSE IF methods[i] = "arping"
    THEN TryMethods_NoBreak(methods, i + 1, env,
            Append(tried, Tried("arping", env.arping.online)),
            IF env.arping.online
            THEN DeviceInfo(TRUE, "arping", env.arping.mac, NoValue)
            ELSE info)
    ELSE TryMethods_NoBreak(methods, i + 1, env, tried, info)

\* The same loop with a name it does not know handled as 'ping'.
RECURSIVE TryMethods_UnknownAsPing(_, _, _, _, _)
TryMethods_UnknownAsPing(methods, i, env, tried, info) ==
    IF i > Len(methods) THEN [info |-> info, tried |-> tried]
    ELSE IF methods[i] = "arping"
    THEN IF env.arping.online
         THEN [info |-> DeviceInfo(TRUE, "arping", env.arping.mac, NoValue),
               tried |-> Append(tried, Tried("arping", TRUE))]
         ELSE TryMethods_UnknownAsPing(methods, i + 1, env,
                         Append(tried, Tried("arping", FALSE)), info)
    ELSE IF env.ping.online
         THEN [info |-> DeviceInfo(TRUE, "ping", env.arp1.mac, NoValue),
               tried |-> Append(tried, Tried("ping", TRUE))]
         ELSE TryMethods_UnknownAsPing(methods, i + 1, env,
                         Append(tried, Tried("ping", FALSE)), info)

\* Lines 274-293: 'for method in discovery_methods', from index i on.
\* tried is the history of the reachability tests made for this host.
RECURSIVE TryMethods(_, _, _, _, _)
TryMethods(methods, i, env, tried, info) ==
    IF i > Len(methods) THEN [info |-> info, tried |-> tried]
    ELSE IF methods[i] = "ping"
    THEN IF env.ping.online
         THEN [info |-> DeviceInfo(TRUE, "ping", env.arp1.mac, NoValue),
               tried |-> Append(tried, Tried("ping", TRUE))]
         ELSE TryMethods(methods, i + 1, env,
                         Append(tried, Tried("ping", FALSE)), info)
    ELSE IF methods[i] = "arping"
    THEN IF env.arping.online
         THEN [info |-> DeviceInfo(TRUE, "arping", env.arping.mac, NoValue),
               tried |-> Append(tried, Tried("arping", TRUE))]
         ELSE TryMethods(methods, i + 1, env,
                         Append(tried, Tried("arping", FALSE)), info)
    ELSE TryMethods(methods, i + 1, env, tried, info)

\* The backfill crediting the probe that supplied the MAC.
Backfill_CreditsArping(info, env) ==
    IF info.is_online /\ info.mac_address = NoMac
    THEN LET m1 == IF info.discovery_method = "ping"
                   THEN env.arping_bf.mac ELSE NoMac
             m2 == IF m1 = NoMac THEN env.arp2.mac ELSE m1
         IN  [info EXCEPT !.mac_address = m2,
                          !.discovery_method =
                              IF m1 # NoMac THEN "arping" ELSE @]
    ELSE info

\* Lines 295-308: MAC backfill for an online host without a MAC.
Backfill(info, env) ==
    IF info.is_online /\ info.mac_address = NoMac
    THEN LET m1 == IF info.discovery_method = "ping"
                   THEN env.arping_bf.mac ELSE NoMac
             m2 == IF m1 = NoMac THEN env.arp2.mac ELSE m1
         IN  [info EXCEPT !.mac_address = m2]
    ELSE info

BackfillCall(name, ret) == [call |-> name, ret |-> ret]

\* Lines 296-306: the probe calls the backfill makes, in order.
BackfillCalls(info, env) ==
    IF info.is_online /\ info.mac_address = NoMac
    THEN LET by_ping == info.discovery_method = "ping"
             c1 == IF by_ping
                   THEN <<BackfillCall("arping_device", env.arping_bf)>>
                   ELSE <<>>
             m1 == IF by_ping THEN env.arping_bf.mac ELSE NoMac
         IN  IF m1 = NoMac
             THEN Append(c1, BackfillCall("get_mac_from_arp_table", env.arp2))
             ELSE c1
    ELSE <<>>

\* Lines 310-325: hostname lookup and discovery log of an online host.
\* Only socket.herror is caught; any other exception of gethostbyaddr, and
\* an exception of log_discovery, ends the thread before line 327.
Finish(info, env) ==
    IF ~info.is_online THEN [info |-> info, died |-> FALSE]
    ELSE IF env.dns = "oserror" THEN [info |-> info, died |-> TRUE]
    ELSE IF env.db = "connect_error" THEN [info |-> info, died |-> TRUE]
    ELSE [info |-> IF env.dns = "name"
                   THEN [info EXCEPT !.hostname = "host"] ELSE info,
          died |-> FALSE]

\* Line 327 with the test left out.
Appends_Always(info, died) == ~died

\* Lines 327-328: the entry is appended when the host is online (and the
\* thread got that far).
Appends(info, died) == ~died /\ info.is_online

\* The whole of scan_ip for one host under one environment.
scan_ip(methods, env) ==
    LET t == TryMethods(methods, 1, env, <<>>,
                        DeviceInfo(FALSE, NoValue, NoMac, NoValue))
        f == Finish(Backfill(t.info, env), env)
    IN  [info |-> f.info, tried |-> t.tried, died |-> f.died,
         appended |-> Appends(f.info, f.died)]

\* The values of settings['discovery_methods'] drawn.
MethodLists == { <<"ping", "arping">>, <<"arping", "ping">>,
                 <<"ping">>, <<"upnp", "arping">> }

\* Everything one scan_ip call can do, per method list.
ScanOutcomes == [m \in MethodLists |-> {scan_ip(m, e) : e \in ScanEnvs}]

-----------------------------------------------------------------------------
(* scan_network_range: the threaded sweep (Spec).                          *)

\* network.hosts(): the host addresses of the range in ascending order.
\* The address space is scaled down: every valid range has NumHosts hosts,
\* one more than a full batch.
NumHosts == BatchLimit + 1
Hosts == 1..NumHosts

NotScanned == [info |-> DeviceInfo(FALSE, NoValue, NoMac, NoValue),
               tried |-> <<>>, died |-> FALSE, appended |-> FALSE]

\* The ranges get_network_range can return in auto mode: what the stdout
\* of a route command can lead to (the fallback range among them).
AutoRanges ==
    {GatewayToRange(ScanLines(o, 1, NoGateway)) : o \in RouteOutputs}

\* Line 253: the value get_network_range returns to the sweep.
ResolvedRanges(setting) ==
    IF setting = AutoRange THEN AutoRanges ELSE {setting}

\* Lines 252-262: resolve and parse the range, read discovery_methods,
\* pre-populate the neighbor cache.  A range that does not parse sends the
\* sweep to the except clause of line 350, which returns [].
ScanBegin ==
    /\ main_pc = "begin"
    /\ \E r \in ResolvedRanges(settings.network_range) :
         /\ network_range' = r
         /\ IF ParseRange(r) = "scanning"
            THEN /\ main_pc' = "loop"
                 /\ sweep_ret' = sweep_ret
            ELSE /\ main_pc' = "done"
                 /\ sweep_ret' = <<>>
    /\ UNCHANGED <<settings, gnr_pc, cmd_i, gateway, route_runs, scan_result>>
    /\ UNCHANGED <<next_ip, threads, join_i, thr, discovered, scan_log,
                   started_seq>>
    /\ UNCHANGED <<probeVars, hostVars, statusVars, configVars,
                   populateVars, workerVars, migrateVars>>

\* Line 333 with the test never true.
MustJoin_Never(n) == FALSE

\* Line 333: the batch is full.
MustJoin(n) == n >= BatchLimit

\* t.join() returning at once.
Joined_AtOnce(st) == TRUE

\* t.join() returns when the thread has ended, normally or by an exception.
Joined(st) == st \in {"finished", "died"}

\* Lines 338-341: start the thread of the next host.
StartThread ==
    /\ main_pc = "loop"
    /\ next_ip <= NumHosts
    /\ ~MustJoin(Len(threads))
    /\ thr' = [thr EXCEPT ![next_ip] = "running"]
    /\ threads' = Append(threads, next_ip)
    /\ started_seq' = Append(started_seq, next_ip)
    /\ next_ip' = next_ip + 1
    /\ UNCHANGED <<settings, main_pc, join_i, discovered, sweep_ret, scan_log>>
    /\ UNCHANGED <<rangeVars, probeVars,
                   hostVars, statusVars, configVars, populateVars,
                   workerVars, migrateVars>>

\* Lines 338-340 and 350-352: threading.Thread(...) or thread.start()
\* raises (RuntimeError "can't start new thread" at the thread limit,
\* MemoryError); the except clause of line 350 logs it and returns [], while
\* the threads started before go on running.
StartThreadFails ==
    /\ main_pc = "loop"
    /\ next_ip <= NumHosts
    /\ ~MustJoin(Len(threads))
    /\ main_pc' = "done"
    /\ sweep_ret' = <<>>
    /\ UNCHANGED <<settings, next_ip, threads, join_i, thr, discovered,
                   scan_log, started_seq>>
    /\ UNCHANGED <<rangeVars, probeVars,
                   hostVars, statusVars, configVars, populateVars,
                   workerVars, migrateVars>>

\* Lines 333-334 and 343-344: enter a join loop, over a full batch or over
\* the threads that remain after the last host.
BeginJoin ==
    /\ main_pc = "loop"
    /\ \/ next_ip <= NumHosts /\ MustJoin(Len(threads))
       \/ next_ip > NumHosts
    /\ main_pc' = IF next_ip > NumHosts THEN "final_join" ELSE "batch_join"
    /\ join_i' = 1
    /\ UNCHANGED <<settings, next_ip, threads, thr, discovered, sweep_ret,
                   scan_log, started_seq>>
    /\ UNCHANGED <<rangeVars, probeVars,
                   hostVars, statusVars, configVars, populateVars,
                   workerVars, migrateVars>>

\* Lines 335 and 345: one t.join() of the loop.
JoinThread ==
    /\ main_pc \in {"batch_join", "final_join"}
    /\ join_i <= Len(threads)
    /\ Joined(thr[threads[join_i]])
    /\ join_i' = join_i + 1
    /\ UNCHANGED <<settings, main_pc, next_ip, threads, thr, discovered,
                   sweep_ret, scan_log, started_seq>>
    /\ UNCHANGED <<rangeVars, probeVars,
                   hostVars, statusVars, configVars, populateVars,
                   workerVars, migrateVars>>

\* Line 336: the batch is joined; the list is emptied and the loop goes on.
EndBatchJoin ==
    /\ main_pc = "batch_join"
    /\ join_i > Len(threads)
    /\ threads' = <<>>
    /\ main_pc' = "loop"
    /\ UNCHANGED <<settings, next_ip, join_i, thr, discovered, sweep_ret,
                   scan_log, started_seq>>
    /\ UNCHANGED <<rangeVars, probeVars,
                   hostVars, statusVars, configVars, populateVars,
                   workerVars, migrateVars>>

\* Lines 347-348: all remaining threads are joined; return the list.
ScanReturn ==
    /\ main_pc = "final_join"
    /\ join_i > Len(threads)
    /\ sweep_ret' = discovered
    /\ main_pc' = "done"
    /\ UNCHANGED <<settings, next_ip, threads, join_i, thr, discovered,
                   scan_log, started_seq>>
    /\ UNCHANGED <<rangeVars, probeVars,
                   hostVars, statusVars, configVars, populateVars,
                   workerVars, migrateVars>>

Entry(h, info) ==
    [ip_address |-> h, mac_address |-> info.mac_address,
     hostname |-> info.hostname, is_online |-> info.is_online,
     discovery_method |-> info.discovery_method]

\* An append that writes into the slot the previous append took.
Collect_Overwrite(list, entry) ==
    IF list = <<>> THEN <<entry>> ELSE [list EXCEPT ![Len(list)] = entry]

\* Line 328: discovered_devices.append(device_info).  list.append is one
\* atomic operation of the interpreter, so the appends of threads that run
\* at the same time take effect one after the other.
Collect(list, entry) == Append(list, entry)

\* The thread of host h runs scan_ip (lines 265-328) to its end.
ScanIp(h) ==
    /\ thr[h] = "running"
    /\ \E o \in ScanOutcomes[settings.discovery_methods] :
         /\ scan_log' = [scan_log EXCEPT ![h] = o]
         /\ thr' = [thr EXCEPT ![h] = IF o.died THEN "died" ELSE "finished"]
         /\ discovered' = IF o.appended
                          THEN Collect(discovered, Entry(h, o.info))
                          ELSE discovered
    /\ UNCHANGED <<settings, main_pc, next_ip, threads, join_i, sweep_ret,
                   started_seq>>
    /\ UNCHANGED <<rangeVars, probeVars,
                   hostVars, statusVars, configVars, populateVars,
                   workerVars, migrateVars>>

Init ==
    /\ settings \in {[DefaultSettings EXCEPT !.network_range = r,
                                             !.discovery_methods = m] :
                        r \in RangeSettings, m \in MethodLists}
    /\ main_pc = "begin"
    /\ next_ip = 1
    /\ threads = <<>>
    /\ join_i = 1
    /\ thr = [h \in Hosts |-> "idle"]
    /\ discovered = <<>>
    /\ sweep_ret = NoValue
    /\ scan_log = [h \in Hosts |-> NotScanned]
    /\ started_seq = <<>>
    /\ IdleRange
    /\ IdleProbe
    /\ IdleHost
    /\ IdleStatus
    /\ IdleConfig
    /\ IdlePopulate
    /\ IdleWorker
    /\ IdleMigrate

Next ==
    \/ ScanBegin
    \/ StartThread
    \/ StartThreadFails
    \/ BeginJoin
    \/ JoinThread
    \/ EndBatchJoin
    \/ ScanReturn
    \/ \E h \in Hosts : ScanIp(h)

Spec == Init /\ [][Next]_vars

-----------------------------------------------------------------------------
(* One scan_ip call and its discovery log (SpecHost).                      *)

LogCall(info, env) ==
    [mac_address |-> info.mac_address, method |-> info.discovery_method,
     success |-> info.is_online, stored |-> env.db = "written"]

\* Lines 318-325 moved out of the 'if device_info[is_online]' block.
LogCalls_EveryHost(info, env) ==
    IF env.dns # "oserror" /\ env.db # "no_db_manager"
    THEN <<LogCall(info, env)>> ELSE <<>>

\* Lines 311-325: the log_discovery calls of one scan_ip call, for the
\* device_info the method loop and the backfill left.  The call is made
\* for an online host when the hostname lookup did not end the thread and
\* a collaborator is configured.
LogCalls(info, env) ==
    IF info.is_online /\ env.dns # "oserror" /\ env.db # "no_db_manager"
    THEN <<LogCall(info, env)>> ELSE <<>>

\* The thread body (lines 265-328) run to its end on h_env.
HostScan ==
    /\ h_pc = "call"
    /\ LET t == TryMethods(settings.discovery_methods, 1, h_env, <<>>,
                           DeviceInfo(FALSE, NoValue, NoMac, NoValue))
       IN  /\ h_out' = scan_ip(settings.discovery_methods, h_env)
           /\ h_calls' = LogCalls(Backfill(t.info, h_env), h_env)
           /\ h_backfill' = BackfillCalls(t.info, h_env)
    /\ h_pc' = "done"
    /\ UNCHANGED <<settings, h_env>>
    /\ UNCHANGED <<rangeVars, probeVars, sweepVars, statusVars, configVars,
                   populateVars, workerVars, migrateVars>>

InitHost ==
    /\ settings \in {[DefaultSettings EXCEPT !.discovery_methods = m] :
                        m \in MethodLists}
    /\ h_pc = "call"
    /\ h_env \in ScanEnvs
    /\ h_out = NotScanned
    /\ h_calls = <<>>
    /\ h_backfill = <<>>
    /\ IdleRange
    /\ IdleProbe
    /\ IdleSweep
    /\ IdleStatus
    /\ IdleConfig
    /\ IdlePopulate
    /\ IdleWorker
    /\ IdleMigrate

NextHost == HostScan

SpecHost == InitHost /\ [][NextHost]_vars

-----------------------------------------------------------------------------
(* check_device_status and get_ip_from_mac, step by step (SpecStatus).     *)

\* The cap of the targeted sweep, 'if i >= 50: break' (line 386), scaled
\* down: every valid range has one host more than the cap, so that the cap
\* is what ends the walk over a range.
ScanLimit == 2
RangeHosts == ScanLimit + 1

\* The mac_address arguments drawn: lower and upper case, colon and hyphen.
StatusMacs == {[id |-> "A", sep |-> ":", case |-> "lower"],
               [id |-> "A", sep |-> ":", case |-> "upper"],
               [id |-> "A", sep |-> "-", case |-> "lower"]}

Platforms == {"Linux", "Windows"}

\* What the arp command of get_ip_from_mac (lines 405, 407) can do.  The
\* call passes no timeout, so TimeoutExpired cannot be raised: a tool that
\* never ends ("hang") keeps subprocess.run waiting.
CacheResults ==
    {r \in ArpResults : r.st # "timeout"} \cup {Failed("hang")}

\* Lines 412-434: the address of the first line whose MAC, in the form the
\* platform's pattern matches, equals the upper-cased argument.
RECURSIVE IpFromLines(_, _, _, _)
IpFromLines(out, mac, platform, i) ==
    IF i > Len(out) THEN NoValue
    ELSE IF /\ IF platform = "Windows" THEN HyphenMatch(out[i])
                                       ELSE ColonMatch(out[i])
            /\ NormalizeMac(out[i].mac) = Upper(mac)
    THEN out[i].addr
    ELSE IpFromLines(out, mac, platform, i + 1)

\* get_ip_from_mac, lines 403-440: what the arp run leads to.  Every
\* exception and a nonzero status give None.
GetIpStep(res, mac, platform) ==
    IF res.st = "hang" THEN [pc |-> "blocked", ip |-> NoValue]
    ELSE IF res.st = "ok"
    THEN [pc |-> "returned", ip |-> IpFromLines(res.out, mac, platform, 1)]
    ELSE [pc |-> "returned", ip |-> NoValue]

\* The values arping_device can return for an address whose neighbors may
\* carry any MAC.
StatusArpingReturns ==
    {ArpingStep(r).ret :
        r \in {x \in ArpResults : ArpingStep(x).pc = "returned"}}
      \cup {ArpFallbackStep(pc, r, Addr1).ret :
              <<pc, r>> \in {x \in {"arp_a", "arp_n"} \X ArpResults :
                                ArpFallbackStep(x[1], x[2], Addr1).pc = "returned"}}

\* Line 379: common_ranges of check_device_status.
StatusRanges(current) ==
    <<current, <<"192", "168", "1", "0/24">>, <<"192", "168", "0", "0/24">>,
      <<"10", "0", "0", "0/24">> >>

\* Line 390 comparing the texts as they are.
RangeHit_CaseSensitive(r, mac) == r.online /\ r.mac # NoMac /\ r.mac = mac

\* Line 390 without the comparison.
RangeHit_AnyMac(r, mac) == r.online /\ r.mac # NoMac

\* Line 390: is_online and found_mac and found_mac.upper() == mac.upper()
RangeHit(r, mac) == r.online /\ r.mac # NoMac /\ Upper(r.mac) = Upper(mac)

\* Line 386: if i >= 50: break
CapReached(i) == i >= ScanLimit

\* Lines 392-393: except: continue
AfterBadRange(ri) == ri + 1

Probe(kind, ri, hi) == [kind |-> kind, range |-> ri, host |-> hi]

statusFrame == <<rangeVars, probeVars, sweepVars, hostVars, configVars,
                 populateVars, workerVars, migrateVars>>

\* Line 362: ip_address = self.get_ip_from_mac(mac_address)
StGetIp ==
    /\ st_pc = "get_ip"
    /\ \E res \in CacheResults :
         LET s == GetIpStep(res, st_mac, st_platform)
         IN  /\ st_ip' = s.ip
             /\ st_pc' = IF s.pc = "blocked" THEN "blocked"
                         ELSE IF s.ip # NoValue THEN "methods"
                         ELSE "resolve"
    /\ st_mi' = 1
    /\ UNCHANGED <<settings, st_mac, st_platform, st_ranges, st_ri, st_hi,
                   st_probes, st_last, st_ret>>
    /\ UNCHANGED statusFrame

\* A variant of the fast path that never returns on a success.
FastPathHit_Never(r) == FALSE

\* Lines 369-370 and 372-374: the probe of the cached address reported the
\* device online, which makes the call return True.
FastPathHit(r) == r.online

\* Lines 368-374: one turn of 'for method in discovery_methods' on the
\* address the neighbor cache gave.
StTryMethod ==
    /\ st_pc = "methods"
    /\ st_mi <= Len(settings.discovery_methods)
    /\ LET method == settings.discovery_methods[st_mi]
       IN  \E r \in IF method = "ping" THEN PingReturns
                    ELSE IF method = "arping" THEN StatusArpingReturns
                    ELSE {NoValue} :
             IF method \in {"ping", "arping"}
             THEN /\ st_probes' = Append(st_probes, Probe(method, 0, 0))
                  /\ st_last' = r
                  /\ IF FastPathHit(r)
                     THEN st_pc' = "returned" /\ st_ret' = TRUE
                          /\ st_mi' = st_mi
                     ELSE st_pc' = "methods" /\ st_ret' = st_ret
                          /\ st_mi' = st_mi + 1
             ELSE /\ st_mi' = st_mi + 1
                  /\ UNCHANGED <<st_probes, st_last, st_pc, st_ret>>
    /\ UNCHANGED <<settings, st_mac, st_platform, st_ip, st_ranges, st_ri,
                   st_hi>>
    /\ UNCHANGED statusFrame

\* The loop of line 368 is exhausted without a return.
StMethodsDone ==
    /\ st_pc = "methods"
    /\ st_mi > Len(settings.discovery_methods)
    /\ st_pc' = "resolve"
    /\ UNCHANGED <<settings, st_mac, st_platform, st_ip, st_mi, st_ranges,
                   st_ri, st_hi, st_probes, st_last, st_ret>>
    /\ UNCHANGED statusFrame

\* Lines 378-379: current_range = self.get_network_range(); common_ranges
StResolve ==
    /\ st_pc = "resolve"
    /\ \E r \in ResolvedRanges(settings.network_range) :
         st_ranges' = StatusRanges(r)
    /\ st_ri' = 1
    /\ st_hi' = 0
    /\ st_pc' = "ranges"
    /\ UNCHANGED <<settings, st_mac, st_platform, st_ip, st_mi, st_probes,
                   st_last, st_ret>>
    /\ UNCHANGED statusFrame

\* Lines 383 and 392-393: the range does not parse; go on with the next.
StSkipRange ==
    /\ st_pc = "ranges"
    /\ st_ri <= Len(st_ranges)
    /\ ~IsValidNetwork(st_ranges[st_ri])
    /\ st_ri' = AfterBadRange(st_ri)
    /\ st_hi' = 0
    /\ UNCHANGED <<settings, st_pc, st_mac, st_platform, st_ip, st_mi,
                   st_ranges, st_probes, st_last, st_ret>>
    /\ UNCHANGED statusFrame

\* Lines 385-391: probe the next host of the range with arping_device.
StProbeHost ==
    /\ st_pc = "ranges"
    /\ st_ri <= Len(st_ranges)
    /\ IsValidNetwork(st_ranges[st_ri])
    /\ st_hi < RangeHosts
    /\ ~CapReached(st_hi)
    /\ \E r \in StatusArpingReturns :
         /\ st_probes' = Append(st_probes, Probe("arping", st_ri, st_hi + 1))
         /\ st_last' = r
         /\ IF RangeHit(r, st_mac)
            THEN st_pc' = "returned" /\ st_ret' = TRUE /\ st_hi' = st_hi
            ELSE st_pc' = "ranges" /\ st_ret' = st_ret /\ st_hi' = st_hi + 1
    /\ UNCHANGED <<settings, st_mac, st_platform, st_ip, st_mi, st_ranges,
                   st_ri>>
    /\ UNCHANGED statusFrame

\* Lines 385-387: the cap is reached, or the range has no more hosts.
StNextRange ==
    /\ st_pc = "ranges"
    /\ st_ri <= Len(st_ranges)
    /\ IsValidNetwork(st_ranges[st_ri])
    /\ (CapReached(st_hi) \/ st_hi >= RangeHosts)
    /\ st_ri' = st_ri + 1
    /\ st_hi' = 0
    /\ UNCHANGED <<settings, st_pc, st_mac, st_platform, st_ip, st_mi,
                   st_ranges, st_probes, st_last, st_ret>>
    /\ UNCHANGED statusFrame

\* Line 395: return False
StReturnFalse ==
    /\ st_pc = "ranges"
    /\ st_ri > Len(st_ranges)
    /\ st_pc' = "returned"
    /\ st_ret' = FALSE
    /\ UNCHANGED <<settings, st_mac, st_platform, st_ip, st_mi, st_ranges,
                   st_ri, st_hi, st_probes, st_last>>
    /\ UNCHANGED statusFrame

InitStatus ==
    /\ settings \in {[DefaultSettings EXCEPT !.network_range = r,
                                             !.discovery_methods = m] :
                        r \in RangeSettings, m \in MethodLists}
    /\ st_pc = "get_ip"
    /\ st_mac \in StatusMacs
    /\ st_platform \in Platforms
    /\ st_ip = NoValue
    /\ st_mi = 1
    /\ st_ranges = <<>>
    /\ st_ri = 1
    /\ st_hi = 0
    /\ st_probes = <<>>
    /\ st_last = NoValue
    /\ st_ret = NoValue
    /\ IdleRange
    /\ IdleProbe
    /\ IdleSweep
    /\ IdleHost
    /\ IdleConfig
    /\ IdlePopulate
    /\ IdleWorker
    /\ IdleMigrate

NextStatus ==
    \/ StGetIp
    \/ StTryMethod
    \/ StMethodsDone
    \/ StResolve
    \/ StSkipRange
    \/ StProbeHost
    \/ StNextRange
    \/ StReturnFalse

SpecStatus == InitStatus /\ [][NextStatus]_vars

-----------------------------------------------------------------------------
(* update_settings beside an operation that reads self.settings            *)
(* (SpecConfig).  Here self.settings is a dict: a function from the keys   *)
(* it holds to their values.                                               *)

\* The number of update_settings calls made while the operation runs.
MaxUpdates == 2

\* The defaults of the self.settings.get calls (lines 35, 99, 122, 257).
GetDefaults ==
    [network_range |-> AutoRange, discovery_methods |-> <<"ping", "arping">>,
     ping_timeout |-> 1, arping_timeout |-> 2]

\* self.settings.get(key, default)
Get(s, key) == IF key \in DOMAIN s THEN s[key] ELSE GetDefaults[key]

\* self.settings = {} of an engine without a collaborator (line 21).
EmptySettings == [k \in {} |-> NoValue]

\* The dicts POSTed to /api/settings: any subset of three keys, each with
\* a value that differs from the default or equals it.
PostedKeys == {"network_range", "discovery_methods", "ping_timeout"}
PostedFull ==
    [network_range : {ExplicitCidr},
     discovery_methods : {<<"arping", "ping">>},
     ping_timeout : 1..MaxTimeout]
PostedSettings ==
    {[k \in D |-> f[k]] : f \in PostedFull, D \in SUBSET PostedKeys}

\* self.settings = new_settings
update_settings_Replace(s, p) == p

\* Line 31: self.settings.update(new_settings)
update_settings(s, p) ==
    [k \in (DOMAIN s) \cup (DOMAIN p) |-> IF k \in DOMAIN p THEN p[k] ELSE s[k]]

Read(key) == [key |-> key, value |-> Get(settings, key)]

configFrame == <<rangeVars, probeVars, sweepVars, hostVars, statusVars,
                 populateVars, workerVars, migrateVars>>

\* app.py line 254 -> lines 29-31, on the request thread.
UpdateSettings ==
    /\ op_pc # "idle"
    /\ Len(snapshots) <= MaxUpdates
    /\ \E p \in PostedSettings :
         /\ settings' = update_settings(settings, p)
         /\ upd' = <<[before |-> settings, p |-> p]>>
         /\ snapshots' = Append(snapshots, update_settings(settings, p))
    /\ UNCHANGED <<op_pc, op_reads>>
    /\ UNCHANGED configFrame

\* Line 253 -> line 35: the sweep reads network_range.
OpReadRange ==
    /\ op_pc = "range"
    /\ op_reads' = Append(op_reads, Read("network_range"))
    /\ op_pc' = "methods"
    /\ UNCHANGED <<settings, snapshots, upd>>
    /\ UNCHANGED configFrame

\* Line 257: the sweep reads discovery_methods, once for all hosts.
OpReadMethods ==
    /\ op_pc = "methods"
    /\ op_reads' = Append(op_reads, Read("discovery_methods"))
    /\ op_pc' = "probes"
    /\ UNCHANGED <<settings, snapshots, upd>>
    /\ UNCHANGED configFrame

\* Lines 99 and 122: the probe of the first method, called for the next
\* host, reads its timeout.
OpReadTimeout ==
    /\ op_pc = "probes"
    /\ Len(op_reads) < 2 + NumHosts
    /\ op_reads' = Append(op_reads,
                     Read(IF op_reads[2].value[1] = "ping"
                          THEN "ping_timeout" ELSE "arping_timeout"))
    /\ UNCHANGED <<settings, op_pc, snapshots, upd>>
    /\ UNCHANGED configFrame

\* Line 348: the sweep returns.
OpReturn ==
    /\ op_pc = "probes"
    /\ Len(op_reads) = 2 + NumHosts
    /\ op_pc' = "done"
    /\ UNCHANGED <<settings, op_reads, snapshots, upd>>
    /\ UNCHANGED configFrame

InitConfig ==
    /\ settings \in {EmptySettings, DefaultSettings}
    /\ op_pc = "range"
    /\ op_reads = <<>>
    /\ snapshots = <<settings>>
    /\ upd = <<>>
    /\ IdleRange
    /\ IdleProbe
    /\ IdleSweep
    /\ IdleHost
    /\ IdleStatus
    /\ IdlePopulate
    /\ IdleWorker
    /\ IdleMigrate

NextConfig ==
    \/ UpdateSettings
    \/ OpReadRange
    \/ OpReadMethods
    \/ OpReadTimeout
    \/ OpReturn

SpecConfig == InitConfig /\ [][NextConfig]_vars

-----------------------------------------------------------------------------
(* SpecPopulate: populate_arp_table (lines 216-248) as scan_network_range  *)
(* calls it at line 262, up to the start of the first scan_ip thread at    *)
(* line 340.  The range was parsed at line 256 before the call, so the     *)
(* parse of line 219 succeeds and the call starts at the host loop.        *)

\* The limit on concurrent ping processes, 'if len(processes) >= 50'
\* (line 225), scaled down; the range has one host more than a full batch.
ProcLimit == 2

\* How one subprocess.Popen call of line 236 ends: the process is started,
\* the executable is absent (FileNotFoundError), or the start fails with
\* another OSError (PermissionError, EAGAIN or EMFILE when the process or
\* descriptor limit is reached, ENOMEM).
PopenOutcomes == {"started", "notfound", "oserror"}

ping_forms == <<"unix", "windows">>

NoProcess == [st |-> "none", cmd |-> "none", n |-> 0]

\* Lines 231-240, the command loop for one host, on the outcomes of the
\* Popen calls of the two forms: cmd is the form whose process was started
\* ("none": no process), raised says that an exception left the loop.
\* FileNotFoundError goes on to the next form.
SpawnFor(outs) ==
    IF outs[1] = "started" THEN [cmd |-> ping_forms[1], raised |-> FALSE]
    ELSE IF outs[1] = "oserror" THEN [cmd |-> "none", raised |-> TRUE]
    ELSE IF outs[2] = "started" THEN [cmd |-> ping_forms[2], raised |-> FALSE]
    ELSE IF outs[2] = "oserror" THEN [cmd |-> "none", raised |-> TRUE]
    ELSE [cmd |-> "none", raised |-> FALSE]

\* Line 225: the batch is full.
BatchFull(procs) == Len(procs) >= ProcLimit

\* Lines 224, 231-240: one iteration of the host loop whose batch is not
\* full.  An exception other than FileNotFoundError reaches the handler of
\* line 247, which logs it, and the function returns at once.
PopSpawn ==
    /\ pop_pc = "loop"
    /\ pop_next <= NumHosts
    /\ ~BatchFull(processes)
    /\ \E outs \in [1..2 -> PopenOutcomes] :
          LET r == SpawnFor(outs) IN
          IF r.raised
          THEN /\ pop_pc' = "returned"
               /\ UNCHANGED <<pop_next, processes, proc>>
          ELSE /\ pop_pc' = "loop"
               /\ pop_next' = pop_next + 1
               /\ IF r.cmd = "none"
                  THEN UNCHANGED <<processes, proc>>
                  ELSE /\ processes' = Append(processes, pop_next)
                       /\ proc' = [proc EXCEPT ![pop_next] =
                                     [st |-> "running", cmd |-> r.cmd,
                                      n |-> @.n + 1]]
    /\ UNCHANGED <<settings, pop_wi>>
    /\ UNCHANGED <<rangeVars, probeVars, sweepVars, hostVars, statusVars,
                   configVars, workerVars, migrateVars>>

\* Lines 225-226: the batch is full, the wait loop over it begins.
PopBeginBatchWait ==
    /\ pop_pc = "loop"
    /\ pop_next <= NumHosts
    /\ BatchFull(processes)
    /\ pop_pc' = "batch_wait"
    /\ pop_wi' = 1
    /\ UNCHANGED <<settings, pop_next, processes, proc>>
    /\ UNCHANGED <<rangeVars, probeVars, sweepVars, hostVars, statusVars,
                   configVars, workerVars, migrateVars>>

\* Line 243: the host loop is over, the wait loop over the rest begins.
PopBeginFinalWait ==
    /\ pop_pc = "loop"
    /\ pop_next > NumHosts
    /\ pop_pc' = "final_wait"
    /\ pop_wi' = 1
    /\ UNCHANGED <<settings, pop_next, processes, proc>>
    /\ UNCHANGED <<rangeVars, probeVars, sweepVars, hostVars, statusVars,
                   configVars, workerVars, migrateVars>>

\* A started ping process ends by itself.
ProcExit(h) ==
    /\ pop_pc # "idle"
    /\ proc[h].st = "running"
    /\ proc' = [proc EXCEPT ![h].st = "exited"]
    /\ UNCHANGED <<settings, pop_pc, pop_next, processes, pop_wi>>
    /\ UNCHANGED <<rangeVars, probeVars, sweepVars, hostVars, statusVars,
                   configVars, workerVars, migrateVars>>

\* Lines 227 and 244: p.wait() returns once the process has ended.
PopWait ==
    /\ pop_pc \in {"batch_wait", "final_wait"}
    /\ pop_wi <= Len(processes)
    /\ proc[processes[pop_wi]].st = "exited"
    /\ proc' = [proc EXCEPT ![processes[pop_wi]].st = "waited"]
    /\ pop_wi' = pop_wi + 1
    /\ UNCHANGED <<settings, pop_pc, pop_next, processes>>
    /\ UNCHANGED <<rangeVars, probeVars, sweepVars, hostVars, statusVars,
                   configVars, workerVars, migrateVars>>

\* Line 228: processes = [] after the wait loop of a full batch.
PopEndBatchWait ==
    /\ pop_pc = "batch_wait"
    /\ pop_wi > Len(processes)
    /\ processes' = <<>>
    /\ pop_pc' = "loop"
    /\ UNCHANGED <<settings, pop_next, pop_wi, proc>>
    /\ UNCHANGED <<rangeVars, probeVars, sweepVars, hostVars, statusVars,
                   configVars, workerVars, migrateVars>>

\* Line 246: the function returns after the last wait loop.
PopReturn ==
    /\ pop_pc = "final_wait"
    /\ pop_wi > Len(processes)
    /\ pop_pc' = "returned"
    /\ UNCHANGED <<settings, pop_next, processes, pop_wi, proc>>
    /\ UNCHANGED <<rangeVars, probeVars, sweepVars, hostVars, statusVars,
                   configVars, workerVars, migrateVars>>

\* Lines 262-340: after the call returned, however it ended, the sweep goes
\* on and starts its first scan_ip thread.
SweepStartsThreads ==
    /\ pop_pc = "returned"
    /\ pop_pc' = "threads"
    /\ UNCHANGED <<settings, pop_next, processes, pop_wi, proc>>
    /\ UNCHANGED <<rangeVars, probeVars, sweepVars, hostVars, statusVars,
                   configVars, workerVars, migrateVars>>

InitPopulate ==
    /\ settings = DefaultSettings
    /\ pop_pc = "loop"
    /\ pop_next = 1
    /\ processes = <<>>
    /\ pop_wi = 0
    /\ proc = [h \in Hosts |-> NoProcess]
    /\ IdleRange
    /\ IdleProbe
    /\ IdleSweep
    /\ IdleHost
    /\ IdleStatus
    /\ IdleConfig
    /\ IdleWorker
    /\ IdleMigrate

NextPopulate ==
    \/ PopSpawn
    \/ PopBeginBatchWait
    \/ PopBeginFinalWait
    \/ \E h \in Hosts : ProcExit(h)
    \/ PopWait
    \/ PopEndBatchWait
    \/ PopReturn
    \/ SweepStartsThreads

SpecPopulate == InitPopulate /\ [][NextPopulate]_vars

-----------------------------------------------------------------------------
(* SpecWorker: the periodic status worker, discovery_worker (app.py lines  *)
(* 314-343), with the table tracked_devices it reads and writes            *)
(* (database.py lines 345-390).                                            *)

\* The rounds of the worker loop that are followed.
MaxRounds == 2

\* The MAC addresses of the tracked devices, in the order of the SELECT of
\* line 351; add_tracked_device stores them upper-cased (line 279).
TrackedMacs == <<"AA", "BB">>

\* A row of tracked_devices, as far as the worker is concerned; last_seen
\* is <<>> for NULL and <<t>> for the time t.
Row(is_online, last_seen) == [is_online |-> is_online, last_seen |-> last_seen]

\* get_tracked_devices, database.py lines 345-370.
get_tracked_devices(db) ==
    [i \in 1..Len(TrackedMacs) |->
        [mac_address |-> TrackedMacs[i],
         is_online |-> db[TrackedMacs[i]].is_online,
         last_seen |-> db[TrackedMacs[i]].last_seen]]

\* update_device_status, database.py lines 372-383: the UPDATE sets
\* is_online and COALESCE(?, last_seen), whose parameter is now for an
\* online device and NULL otherwise.
update_device_status(db, mac, is_online, now) ==
    [db EXCEPT ![mac] = Row(is_online,
                            IF is_online THEN <<now>> ELSE @.last_seen)]

\* How a database call ends: it returns, or sqlite3 raises (the file cannot
\* be opened, the database is locked); update_device_status rolls back and
\* raises again (lines 384-388).
DbCallOutcomes == {"ok", "error"}

\* Lines 318-322: a round begins with the tracked devices as stored.  An
\* exception of get_tracked_devices is caught at line 341.
WkBeginRound ==
    /\ wk_pc = "round"
    /\ wk_round < MaxRounds
    /\ wk_round' = wk_round + 1
    /\ wk_clock' = wk_clock + 1
    /\ wk_writes' = <<>>
    /\ wk_emitted' = <<>>
    /\ updated_devices' = <<>>
    /\ \E o \in DbCallOutcomes :
         IF o = "ok"
         THEN /\ tracked' = get_tracked_devices(stored)
              /\ wk_i' = 1
              /\ wk_pc' = "devices"
         ELSE /\ wk_pc' = "failed"
              /\ UNCHANGED <<tracked, wk_i>>
    /\ UNCHANGED <<settings, stored>>
    /\ UNCHANGED <<rangeVars, probeVars, sweepVars, hostVars, statusVars,
                   configVars, populateVars, migrateVars>>

\* Lines 324-330: one turn of 'for device in tracked'.  check_device_status
\* returns a boolean; an exception of update_device_status leaves the loop
\* for the handler of line 341.
WkCheckDevice ==
    /\ wk_pc = "devices"
    /\ wk_i <= Len(tracked)
    /\ \E is_online \in BOOLEAN, o \in DbCallOutcomes :
         LET device == tracked[wk_i]
         IN  IF is_online # device.is_online
             THEN IF o = "ok"
                  THEN /\ stored' = update_device_status(
                                        stored, device.mac_address,
                                        is_online, wk_clock)
                       /\ wk_writes' = Append(wk_writes,
                             [mac |-> device.mac_address,
                              checked |-> is_online,
                              before |-> stored[device.mac_address],
                              after |-> stored'[device.mac_address]])
                       /\ tracked' = [tracked EXCEPT ![wk_i] =
                             [@ EXCEPT !.is_online = is_online,
                                       !.last_seen = IF is_online
                                                     THEN <<wk_clock>>
                                                     ELSE @]]
                       /\ updated_devices' =
                             Append(updated_devices, tracked'[wk_i])
                       /\ wk_i' = wk_i + 1
                       /\ wk_pc' = "devices"
                  ELSE /\ wk_pc' = "failed"
                       /\ UNCHANGED <<stored, wk_writes, tracked,
                                      updated_devices, wk_i>>
             ELSE /\ wk_i' = wk_i + 1
                  /\ UNCHANGED <<stored, wk_writes, tracked,
                                 updated_devices, wk_pc>>
    /\ UNCHANGED <<settings, wk_round, wk_clock, wk_emitted>>
    /\ UNCHANGED <<rangeVars, probeVars, sweepVars, hostVars, statusVars,
                   configVars, populateVars, migrateVars>>

\* Lines 332-334: after the device loop, emit the update when the list is
\* not empty.
WkEmit ==
    /\ wk_pc = "devices"
    /\ wk_i > Len(tracked)
    /\ wk_emitted' = updated_devices
    /\ wk_pc' = "sleep"
    /\ UNCHANGED <<settings, wk_round, stored, tracked, wk_i, updated_devices,
                   wk_clock, wk_writes>>
    /\ UNCHANGED <<rangeVars, probeVars, sweepVars, hostVars, statusVars,
                   configVars, populateVars, migrateVars>>

\* Lines 337-339 and 341-343: time.sleep, after a round that ended or in
\* the exception handler; then line 318 again.
WkSleep ==
    /\ wk_pc \in {"sleep", "failed"}
    /\ wk_pc' = "round"
    /\ UNCHANGED <<settings, wk_round, stored, tracked, wk_i, updated_devices,
                   wk_clock, wk_writes, wk_emitted>>
    /\ UNCHANGED <<rangeVars, probeVars, sweepVars, hostVars, statusVars,
                   configVars, populateVars, migrateVars>>

InitWorker ==
    /\ settings = DefaultSettings
    /\ wk_pc = "round"
    /\ wk_round = 0
    /\ stored \in [{TrackedMacs[i] : i \in 1..Len(TrackedMacs)} ->
                      {Row(b, t) : b \in BOOLEAN, t \in {<<>>, <<0>>}}]
    /\ tracked = <<>>
    /\ wk_i = 0
    /\ updated_devices = <<>>
    /\ wk_clock = 0
    /\ wk_writes = <<>>
    /\ wk_emitted = <<>>
    /\ IdleRange
    /\ IdleProbe
    /\ IdleSweep
    /\ IdleHost
    /\ IdleStatus
    /\ IdleConfig
    /\ IdlePopulate
    /\ IdleMigrate

NextWorker ==
    \/ WkBeginRound
    \/ WkCheckDevice
    \/ WkEmit
    \/ WkSleep

SpecWorker == InitWorker /\ [][NextWorker]_vars

-----------------------------------------------------------------------------
(* SpecMigrate: DatabaseManager.initialize and run_migrations (database.py *)
(* lines 230-267) on a database whose migrations table and schema persist  *)
(* from one call to the next.                                              *)

\* The initialize() calls that are followed, one after the other.
MaxInits == 3

\* Line 18: self.current_version = 3
LatestVersion == 3

\* Lines 243-246: the versions of the list migrations.
migrations == <<2, 3>>

Pc(at, i) == [at |-> at, i |-> i]

\* Lines 45-52: the largest version among the rows of migrations, 0 when
\* the table is missing or empty.
RecordedVersion(rows) ==
    IF rows = <<>> THEN 0
    ELSE CHOOSE v \in {rows[k] : k \in 1..Len(rows)} :
             \A k \in 1..Len(rows) : rows[k] <= v

\* How a database call ends: it returns, or sqlite3 raises.
MigrationCallOutcomes == {"ok", "error"}

\* get_database_version, lines 30-58: an exception of the queries is
\* logged and answered with 0 (lines 54-56).
get_database_version(rows, o) ==
    IF o = "ok" THEN RecordedVersion(rows) ELSE 0

\* migrate_to_version_1..3, lines 99-228: CREATE TABLE IF NOT EXISTS, INSERT
\* OR IGNORE and the column test of line 195 make a migration that is
\* applied again leave the schema as it is.
ApplyMigration(sch, v) == sch \cup {v}

\* Lines 259-263 and 232: initialize() is called and run_migrations reads
\* the version.
MgInitialize ==
    /\ mg_pc.at \in {"start", "done", "raised"}
    /\ mg_inits < MaxInits
    /\ mg_inits' = mg_inits + 1
    /\ mg_applied' = <<>>
    /\ \E o \in MigrationCallOutcomes :
         /\ mg_current' = get_database_version(recorded, o)
         /\ mg_start' = [version |-> RecordedVersion(recorded),
                         recorded |-> recorded, schema |-> schema,
                         read |-> o]
    /\ mg_pc' = IF mg_current' = 0 THEN Pc("create_table", 0)
                ELSE Pc("loop", 1)
    /\ UNCHANGED <<settings, recorded, schema>>
    /\ UNCHANGED <<rangeVars, probeVars, sweepVars, hostVars, statusVars,
                   configVars, populateVars, workerVars>>

\* Line 236: create_migrations_table (CREATE TABLE IF NOT EXISTS); an
\* exception is raised again and leaves initialize (lines 93-95, 265-267).
MgCreateTable ==
    /\ mg_pc.at = "create_table"
    /\ \E o \in MigrationCallOutcomes :
         mg_pc' = IF o = "ok" THEN Pc("apply", 0) ELSE Pc("raised", 0)
    /\ UNCHANGED <<settings, mg_inits, recorded, schema, mg_current, mg_start,
                   mg_applied>>
    /\ UNCHANGED <<rangeVars, probeVars, sweepVars, hostVars, statusVars,
                   configVars, populateVars, workerVars>>

\* The version of the migration at position i: 1 in the first-time block
\* of lines 234-239, migrations[i] in the loop of line 248.
VersionAt(i) == IF i = 0 THEN 1 ELSE migrations[i]

\* Lines 237 and 251: the migration function runs; it commits, or rolls
\* back and raises.
MgApply ==
    /\ mg_pc.at = "apply"
    /\ \E o \in MigrationCallOutcomes :
         IF o = "ok"
         THEN /\ schema' = ApplyMigration(schema, VersionAt(mg_pc.i))
              /\ mg_applied' = Append(mg_applied, VersionAt(mg_pc.i))
              /\ mg_pc' = Pc("record", mg_pc.i)
         ELSE /\ mg_pc' = Pc("raised", 0)
              /\ UNCHANGED <<schema, mg_applied>>
    /\ UNCHANGED <<settings, mg_inits, recorded, mg_current, mg_start>>
    /\ UNCHANGED <<rangeVars, probeVars, sweepVars, hostVars, statusVars,
                   configVars, populateVars, workerVars>>

\* Lines 238-239 and 252-253: record_migration inserts the row, or raises
\* and leaves the migration applied and not recorded.
MgRecord ==
    /\ mg_pc.at = "record"
    /\ \E o \in MigrationCallOutcomes :
         IF o = "ok"
         THEN /\ recorded' = Append(recorded, VersionAt(mg_pc.i))
              /\ mg_current' = VersionAt(mg_pc.i)
              /\ mg_pc' = Pc("loop", mg_pc.i + 1)
         ELSE /\ mg_pc' = Pc("raised", 0)
              /\ UNCHANGED <<recorded, mg_current>>
    /\ UNCHANGED <<settings, mg_inits, schema, mg_start, mg_applied>>
    /\ UNCHANGED <<rangeVars, probeVars, sweepVars, hostVars, statusVars,
                   configVars, populateVars, workerVars>>

\* Lines 248-249: one turn of the loop over migrations.
MgLoop ==
    /\ mg_pc.at = "loop"
    /\ mg_pc.i <= Len(migrations)
    /\ mg_pc' = IF mg_current < migrations[mg_pc.i]
                THEN Pc("apply", mg_pc.i)
                ELSE Pc("loop", mg_pc.i + 1)
    /\ UNCHANGED <<settings, mg_inits, recorded, schema, mg_current, mg_start,
                   mg_applied>>
    /\ UNCHANGED <<rangeVars, probeVars, sweepVars, hostVars, statusVars,
                   configVars, populateVars, workerVars>>

\* Lines 255-264: the loop is over and initialize returns.
MgReturn ==
    /\ mg_pc.at = "loop"
    /\ mg_pc.i > Len(migrations)
    /\ mg_pc' = Pc("done", 0)
    /\ UNCHANGED <<settings, mg_inits, recorded, schema, mg_current, mg_start,
                   mg_applied>>
    /\ UNCHANGED <<rangeVars, probeVars, sweepVars, hostVars, statusVars,
                   configVars, populateVars, workerVars>>

\* A database at a recorded version 0..LatestVersion, left by runs that
\* ended or by one that was interrupted after applying the next migration.
InitMigrate ==
    /\ settings = DefaultSettings
    /\ mg_pc = Pc("start", 0)
    /\ mg_inits = 0
    /\ \E v \in 0..LatestVersion :
         /\ recorded = [k \in 1..v |-> k]
         /\ schema \in {1..v, 1..(IF v < LatestVersion THEN v + 1 ELSE v)}
    /\ mg_current = 0
    /\ mg_start = NoValue
    /\ mg_applied = <<>>
    /\ IdleRange
    /\ IdleProbe
    /\ IdleSweep
    /\ IdleHost
    /\ IdleStatus
    /\ IdleConfig
    /\ IdlePopulate
    /\ IdleWorker

NextMigrate ==
    \/ MgInitialize
    \/ MgCreateTable
    \/ MgApply
    \/ MgRecord
    \/ MgLoop
    \/ MgReturn

SpecMigrate == InitMigrate /\ [][NextMigrate]_vars

-----------------------------------------------------------------------------
(* SpecEngine: any one of the operations of the engine that run external   *)
(* tools or walk discovery_methods, from its start to its return.          *)

InitEngine ==
    \/ InitRange
    \/ InitProbe
    \/ InitHost
    \/ InitStatus
    \/ InitPopulate

NextEngine ==
    \/ NextRange
    \/ NextProbe
    \/ NextHost
    \/ NextStatus
    \/ NextPopulate

SpecEngine == InitEngine /\ [][NextEngine]_vars

-----------------------------------------------------------------------------
(* Claims about the sweep (Spec).                                          *)

Running == {h \in DOMAIN thr : thr[h] = "running"}

\* Some reachability test of the sweep reported host h online.
ProbedOnline(h) ==
    \E j \in 1..Len(scan_log[h].tried) : scan_log[h].tried[j].online

InList(list, h) == \E i \in 1..Len(list) : list[i].ip_address = h

SoundList(list) ==
    \A i \in 1..Len(list) :
        /\ list[i].is_online = TRUE
        /\ ProbedOnline(list[i].ip_address)

\* C1: every entry of the list a sweep builds and returns has
\* is_online = true, and a host for which no configured method's probe
\* reported online during the sweep is not in it.
C1_ReportIsSound ==
    /\ SoundList(discovered)
    /\ (main_pc = "done" => SoundList(sweep_ret))

C1_Witness ==
    /\ main_pc = "done"
    /\ Len(sweep_ret) >= 1
    /\ \E h \in Hosts :
         /\ scan_log[h].tried # <<>>
         /\ ~ProbedOnline(h)
         /\ ~InList(sweep_ret, h)

\* C2: when the sweep has returned, every host for which some configured
\* method's probe reported online has an entry in the returned list,
\* whatever the later steps of its scan_ip call did.
C2_ReportIsComplete ==
    main_pc = "done" =>
        \A h \in DOMAIN scan_log : ProbedOnline(h) => InList(sweep_ret, h)

\* C3: at no time are more scan_ip threads started and not yet ended than
\* the batch limit allows.
C3_AtMostBatchLimitThreads == Cardinality(Running) <= BatchLimit

C3_Witness ==
    /\ Cardinality(Running) = BatchLimit
    /\ next_ip <= NumHosts
    /\ main_pc = "batch_join"

\* The batch of a started host: consecutive groups of BatchLimit threads in
\* start order.
StartIndex(h) == CHOOSE i \in 1..Len(started_seq) : started_seq[i] = h
BatchOf(h) == (StartIndex(h) - 1) \div BatchLimit
Started == {started_seq[i] : i \in 1..Len(started_seq)}

\* C4: a thread of a later batch is started only after every thread of
\* every earlier batch has ended; while a thread of a full batch still
\* runs, no further thread can be started.
C4_BatchBarrier ==
    /\ \A h1 \in Started, h2 \in Started :
         BatchOf(h1) < BatchOf(h2) => thr[h1] \in {"finished", "died"}
    /\ (Len(threads) = BatchLimit /\ \E h \in Running : TRUE)
           => ~ENABLED StartThread

C4_Witness ==
    /\ main_pc = "batch_join"
    /\ Len(threads) = BatchLimit
    /\ next_ip <= NumHosts
    /\ thr[threads[1]] = "running"
    /\ \A i \in 2..Len(threads) : thr[threads[i]] = "finished"

KnownMethods(methods) ==
    SelectSeq(methods, LAMBDA m : m \in {"ping", "arping"})

\* C5: for each host the reachability tests follow the order of
\* discovery_methods, no test follows one that reported online, a host is
\* given up only after every method was tried, and the recorded
\* discovery_method is the method of the test that reported online.
C5_FirstMatchWins ==
    \A h \in DOMAIN scan_log :
        LET tried == scan_log[h].tried
            known == KnownMethods(settings.discovery_methods)
            info == scan_log[h].info
        IN  /\ Len(tried) <= Len(known)
            /\ \A j \in 1..Len(tried) : tried[j].method = known[j]
            /\ \A j \in 1..(Len(tried) - 1) : ~tried[j].online
            /\ info.is_online = ProbedOnline(h)
            /\ info.is_online =>
                   info.discovery_method = tried[Len(tried)].method
            /\ (thr[h] \in {"finished", "died"} /\ ~info.is_online) =>
                   Len(tried) = Len(known)
            /\ \A i \in 1..Len(discovered) :
                   discovered[i].ip_address = h =>
                       discovered[i].discovery_method = info.discovery_method

C5_Witness ==
    /\ settings.discovery_methods = <<"ping", "arping">>
    /\ \E i \in 1..Len(discovered) : discovered[i].discovery_method = "ping"
    /\ \E i \in 1..Len(discovered) :
         /\ discovered[i].discovery_method = "arping"
         /\ scan_log[discovered[i].ip_address].tried =
                <<Tried("ping", FALSE), Tried("arping", TRUE)>>

-----------------------------------------------------------------------------
(* Claims about range resolution (SpecRange).                              *)

GnrReturned == gnr_pc \in {"returned", "parsed"}

RunStatuses == [i \in 1..Len(route_runs) |-> route_runs[i].res.st]

C7_AutoAlwaysReturnsRange ==
    settings.network_range = AutoRange =>
        /\ gnr_pc # "raised"
        /\ (gnr_pc = "loop" => cmd_i <= Len(route_commands))
        /\ (gnr_pc \in {"start", "loop", "convert"} => ENABLED NextRange)
        /\ (GnrReturned => network_range # NoValue /\ Len(network_range) = 4)

C7_Witness ==
    /\ settings.network_range = AutoRange
    /\ gnr_pc = "returned"
    /\ \E i \in 1..Len(route_runs) : RunStatuses[i] = "oserror"
    /\ \E i \in 1..Len(route_runs) : RunStatuses[i] = "notfound"
    /\ \E i \in 1..Len(route_runs) : RunStatuses[i] = "timeout"

\* C8: a range that auto-detection returns is always a syntactically valid
\* IPv4 /24 block, whatever the route commands print.
C8_AutoRangeIsValidSlash24 ==
    (settings.network_range = AutoRange /\ GnrReturned) =>
        IsSlash24(network_range)

-----------------------------------------------------------------------------
(* Claims about the probes (SpecProbe).                                    *)

RECURSIVE BudgetSum(_, _)
BudgetSum(runs, i) ==
    IF i > Len(runs) THEN 0 ELSE runs[i].budget + BudgetSum(runs, i + 1)

\* No tool gave a positive answer during the call.
NeverAnswered == \A i \in 1..Len(p_runs) : p_runs[i].res.st # "ok"

ProbeTimeout ==
    IF p_call = "ping_device" THEN settings.ping_timeout
                              ELSE settings.arping_timeout

\* C9: a call of ping_device or arping_device whose tools never answer
\* returns after waits whose timeout budgets, summed over every subprocess
\* the call started, are at most T + 1 seconds.
C9_ProbeWithinTimeoutPlusOne ==
    (p_call \in {"ping_device", "arping_device"}
        /\ p_pc = "returned" /\ NeverAnswered) =>
        BudgetSum(p_runs, 1) <= ProbeTimeout + 1

\* C10: when arping is present and exits nonzero, arping_device returns
\* (False, None) without consulting the neighbor table.
C10_NoArpFallbackAfterArpingFailure ==
    (p_call = "arping_device" /\ p_pc = "returned"
        /\ p_runs[1].res.st = "nonzero") =>
        /\ Len(p_runs) = 1
        /\ p_ret = Ret(FALSE, NoMac)

-----------------------------------------------------------------------------
(* Claims about check_device_status (SpecStatus).                          *)

\* C11: neither operation is ever left waiting on an external tool that
\* does not end: every wait has a timeout of its own, so no call is stuck
\* inside a subprocess that never returns.
C11_NoWaitWithoutTimeout == st_pc # "blocked"

\* The probes of the targeted sweep, in the order they were made.
RangeProbes == SelectSeq(st_probes, LAMBDA p : p.range > 0)

\* Two MAC texts that differ at most in the case of their letters.
SameIgnoringCase(found, mac) ==
    found # NoMac /\ found.id = mac.id /\ found.sep = mac.sep

\* The last probe of the call was a targeted one and found the device.
LastProbeFound ==
    /\ RangeProbes # <<>>
    /\ st_probes[Len(st_probes)].range > 0
    /\ st_last.online
    /\ SameIgnoringCase(st_last.mac, st_mac)

StatusRunning == st_pc \in {"get_ip", "methods", "resolve", "ranges"}

\* C15: check_device_status raises nothing (every step of the call leads
\* to another step or to a return), and a call that got no address from
\* the neighbor cache and none of whose targeted probes found the device
\* returns false; only a probe that finds the device ends the walk, so it
\* is enough to look at the last probe.
C15_StatusReturnsFalseOnFailure ==
    /\ st_pc \in {"idle", "blocked", "returned"} \/ StatusRunning
    /\ StatusRunning => ENABLED NextStatus
    /\ st_pc = "returned" => st_ret \in BOOLEAN
    /\ (st_pc = "returned" /\ st_ip = NoValue /\ ~LastProbeFound)
           => st_ret = FALSE

C15_Witness ==
    /\ st_pc = "returned"
    /\ st_ret = FALSE
    /\ st_ip = NoValue
    /\ settings.network_range = BadRange
    /\ st_last.online /\ st_last.mac # NoMac
    /\ Len(RangeProbes) = 3 * ScanLimit

\* The number of targeted probes made in range ri.
ProbesIn(ri) ==
    Cardinality({i \in 1..Len(RangeProbes) : RangeProbes[i].range = ri})

\* C17: the targeted sweep visits the resolved range and then
\* 192.168.1.0/24, 192.168.0.0/24, 10.0.0.0/24 in this order; in each range
\* it probes the hosts from the first on and at most the first ScanLimit of
\* them, with arping_device only; a range is left only when it does not
\* parse or its first ScanLimit hosts were probed; the MAC a probe reports
\* is compared with the argument ignoring case, and the call returns true
\* at the first probe that finds the device, with no probe after it.
C17_TargetedSweepOrder ==
    /\ st_ranges # <<>> =>
           /\ Len(st_ranges) = 4
           /\ st_ranges[1] \in ResolvedRanges(settings.network_range)
           /\ st_ranges[2] = <<"192", "168", "1", "0/24">>
           /\ st_ranges[3] = <<"192", "168", "0", "0/24">>
           /\ st_ranges[4] = <<"10", "0", "0", "0/24">>
    /\ \A i \in 1..Len(RangeProbes) :
           /\ RangeProbes[i].kind = "arping"
           /\ RangeProbes[i].range \in 1..4
           /\ IsValidNetwork(st_ranges[RangeProbes[i].range])
           /\ RangeProbes[i].host \in 1..ScanLimit
    /\ \A i \in 1..(Len(RangeProbes) - 1) :
           LET a == RangeProbes[i]
               b == RangeProbes[i + 1]
           IN  \/ b.range = a.range /\ b.host = a.host + 1
               \/ /\ b.range > a.range
                  /\ b.host = 1
                  /\ a.host = ScanLimit
                  /\ \A k \in (a.range + 1)..(b.range - 1) :
                         ~IsValidNetwork(st_ranges[k])
    /\ RangeProbes # <<>> =>
           /\ RangeProbes[1].host = 1
           /\ \A k \in 1..(RangeProbes[1].range - 1) :
                  ~IsValidNetwork(st_ranges[k])
    /\ LastProbeFound => st_pc = "returned" /\ st_ret = TRUE
    /\ (st_pc = "returned" /\ st_ret = FALSE) =>
           \A k \in 1..4 :
               IsValidNetwork(st_ranges[k]) => ProbesIn(k) = ScanLimit

C17_Witness ==
    /\ st_pc = "returned"
    /\ st_ret = TRUE
    /\ st_mac.case = "lower"
    /\ st_last.mac.case = "upper"
    /\ Len(RangeProbes) = ScanLimit + 1
    /\ IsValidNetwork(st_ranges[1])
    /\ RangeProbes[Len(RangeProbes)] = Probe("arping", 2, 1)

-----------------------------------------------------------------------------
(* Claims about the sweep's order and about one scan_ip call.              *)

\* C12: the entries of the list a sweep builds and returns are in
\* ascending address order, whatever the order in which the scan_ip
\* threads complete.
C12_AscendingAddressOrder ==
    /\ \A i \in 1..(Len(discovered) - 1) :
           discovered[i].ip_address < discovered[i + 1].ip_address
    /\ main_pc = "done" =>
           \A i \in 1..(Len(sweep_ret) - 1) :
               sweep_ret[i].ip_address < sweep_ret[i + 1].ip_address

\* Some reachability test of the single scan_ip call reported online.
HostProbedOnline ==
    \E j \in 1..Len(h_out.tried) : h_out.tried[j].online

\* C13: when the reverse lookup of an online host fails in any way and the
\* persistence collaborator does not fail, the host is appended to the
\* report with no hostname and the thread ends normally.
C13_LookupFailureIgnored ==
    (h_pc = "done" /\ HostProbedOnline /\ h_env.dns # "name"
        /\ h_env.db \in {"written", "no_db_manager"}) =>
        /\ h_out.appended
        /\ ~h_out.died
        /\ h_out.info.hostname = NoValue

\* C14: when log_discovery fails for an online host, in the INSERT or in
\* opening the connection, and the reverse lookup did not fail otherwise
\* than by host-not-found, the host is appended to the report all the same
\* and the thread ends normally.
C14_PersistenceFailureIgnored ==
    (h_pc = "done" /\ HostProbedOnline /\ h_env.dns \in {"name", "herror"}
        /\ h_env.db \in {"insert_error", "connect_error"}) =>
        /\ h_out.appended
        /\ ~h_out.died

\* C20: with a persistence collaborator configured, a scan_ip call makes
\* at most one log_discovery call; a host that gets into the report has
\* exactly one, with success = true, the entry's discovery_method and the
\* entry's MAC; a host that no probe reported online has none.
C20_OneLogRecordPerReportedHost ==
    (h_pc = "done" /\ h_env.db # "no_db_manager") =>
        /\ Len(h_calls) <= 1
        /\ h_out.appended =>
               /\ Len(h_calls) = 1
               /\ h_calls[1].success = TRUE
               /\ h_calls[1].method = h_out.info.discovery_method
               /\ h_calls[1].mac_address = h_out.info.mac_address
        /\ ~HostProbedOnline => h_calls = <<>>

C20_Witness ==
    /\ h_pc = "done"
    /\ h_env.db = "written"
    /\ h_out.appended
    /\ h_out.info.discovery_method = "arping"
    /\ h_out.tried = <<Tried("ping", FALSE), Tried("arping", TRUE)>>
    /\ h_calls = <<[mac_address |-> h_out.info.mac_address,
                    method |-> "arping", success |-> TRUE, stored |-> TRUE]>>

-----------------------------------------------------------------------------
(* Claims about the settings (SpecConfig).                                 *)

\* Every read of the operation agrees with snapshot s.
ReadsFrom(s) ==
    \A j \in 1..Len(op_reads) : Get(s, op_reads[j].key) = op_reads[j].value

\* C18: the settings reads of one operation all observe one and the same
\* value of self.settings, also when update_settings runs beside it.
C18_ReadsObserveOneSnapshot ==
    \E i \in 1..Len(snapshots) : ReadsFrom(snapshots[i])

\* C19: after update_settings(p) the settings hold exactly the keys they
\* held before and the keys of p, every key of p with its value in p and
\* every other key with the value it had; applying p once more changes
\* nothing.
C19_MergeOverwrite ==
    upd # <<>> =>
        LET before == upd[1].before
            p == upd[1].p
        IN  /\ DOMAIN settings = (DOMAIN before) \cup (DOMAIN p)
            /\ \A k \in DOMAIN p : settings[k] = p[k]
            /\ \A k \in (DOMAIN before) \ (DOMAIN p) : settings[k] = before[k]
            /\ update_settings(settings, p) = settings

C19_Witness ==
    /\ upd # <<>>
    /\ upd[1].before = DefaultSettings
    /\ DOMAIN upd[1].p = {"ping_timeout"}
    /\ upd[1].p.ping_timeout = MaxTimeout
    /\ settings.ping_timeout = MaxTimeout
    /\ settings.arping_timeout = DefaultSettings.arping_timeout
    /\ settings.network_range = AutoRange

-----------------------------------------------------------------------------
(* Further claims about the probes (SpecProbe).                            *)

\* C23: ping_device runs the Unix-style form first and the Windows-style
\* form second, the second exactly when the first completed with a nonzero
\* exit status; it returns true iff one of its invocations exited with
\* status 0, whatever they printed, and an invocation that times out is
\* the last one and gives false.
C23_PingFormsInOrder ==
    p_call = "ping_device" =>
        /\ Len(p_runs) <= 2
        /\ Len(p_runs) >= 1 => p_runs[1].cmd = "ping_unix"
        /\ Len(p_runs) = 2 =>
               p_runs[2].cmd = "ping_windows" /\ p_runs[1].res.st = "nonzero"
        /\ p_pc = "returned" =>
               /\ Len(p_runs) >= 1
               /\ p_runs[1].res.st = "nonzero" => Len(p_runs) = 2
               /\ p_ret.online = (\E i \in 1..Len(p_runs) : p_runs[i].res.st = "ok")
               /\ p_ret.mac = NoMac
        /\ \A i \in 1..Len(p_runs) :
               p_runs[i].res.st = "timeout" =>
                   /\ i = Len(p_runs)
                   /\ p_pc = "returned"
                   /\ p_ret.online = FALSE

C23_Witness ==
    /\ p_call = "ping_device"
    /\ p_pc = "returned"
    /\ Len(p_runs) = 2
    /\ p_runs[1].res = [st |-> "nonzero", out |-> << <<"1", "received">> >>]
    /\ p_runs[2].res = [st |-> "ok", out |-> <<>>]
    /\ p_ret.online = TRUE

-----------------------------------------------------------------------------
(* Further claims about one scan_ip call (SpecHost).                       *)

\* The method whose test reported online, and the MAC that method left.
WinningMethod == h_out.tried[Len(h_out.tried)].method
MacAfterWin ==
    IF WinningMethod = "ping" THEN h_env.arp1.mac ELSE h_env.arping.mac

\* C24: the backfill makes no call for an offline host or for a host whose
\* winning method left a MAC; otherwise it calls arping_device once if the
\* winning method was ping, and get_mac_from_arp_table once more if there
\* is still no MAC; the entry takes the first MAC these calls supply;
\* is_online and discovery_method stay what the winning method made them.
C24_BackfillFrame ==
    h_pc = "done" =>
        /\ h_out.info.is_online = HostProbedOnline
        /\ ~HostProbedOnline =>
               /\ h_backfill = <<>>
               /\ h_out.info.mac_address = NoMac
               /\ h_out.info.discovery_method = NoValue
        /\ HostProbedOnline =>
               /\ h_out.info.discovery_method = WinningMethod
               /\ MacAfterWin # NoMac =>
                      /\ h_backfill = <<>>
                      /\ h_out.info.mac_address = MacAfterWin
               /\ (MacAfterWin = NoMac /\ WinningMethod = "ping") =>
                      /\ h_backfill[1] =
                             BackfillCall("arping_device", h_env.arping_bf)
                      /\ IF h_env.arping_bf.mac # NoMac
                         THEN /\ Len(h_backfill) = 1
                              /\ h_out.info.mac_address = h_env.arping_bf.mac
                         ELSE /\ Len(h_backfill) = 2
                              /\ h_backfill[2] =
                                     BackfillCall("get_mac_from_arp_table",
                                                  h_env.arp2)
                              /\ h_out.info.mac_address = h_env.arp2.mac
               /\ (MacAfterWin = NoMac /\ WinningMethod = "arping") =>
                      /\ h_backfill =
                             <<BackfillCall("get_mac_from_arp_table",
                                            h_env.arp2)>>
                      /\ h_out.info.mac_address = h_env.arp2.mac

C24_Witness ==
    /\ h_pc = "done"
    /\ h_out.appended
    /\ h_out.info.discovery_method = "ping"
    /\ h_env.arp1.mac = NoMac
    /\ Len(h_backfill) = 1
    /\ h_backfill[1].call = "arping_device"
    /\ h_backfill[1].ret.mac # NoMac
    /\ h_out.info.mac_address = h_backfill[1].ret.mac

\* The runs of a get_mac_from_arp_table call.
LastRun == p_runs[Len(p_runs)]

\* The lines of out that contain the address and show a MAC, in any of the
\* three forms.
MacLinesOf(out, ip) ==
    {i \in 1..Len(out) : IpInLine(ip, out[i]) /\ out[i].mac # NoMac}

FirstMacLine(out, ip) ==
    CHOOSE i \in MacLinesOf(out, ip) : \A j \in MacLinesOf(out, ip) : i <= j

\* C25: get_mac_from_arp_table runs arp -n, arp -a, ip neighbor in this
\* order; a run that exits with status 0 and prints a line containing the
\* address with a MAC ends the call with the MAC of the first such line;
\* a command that is missing, times out, exits nonzero or prints no such
\* line is followed by the next command; the call returns (false, none)
\* exactly when it ends without such a run.
C25_FirstMacInCommandAndLineOrder ==
    p_call = "get_mac_from_arp_table" =>
        /\ Len(p_runs) <= 3
        /\ \A i \in 1..Len(p_runs) :
               /\ p_runs[i].cmd = <<"arp -n", "arp -a", "ip neighbor">>[i]
               /\ i < Len(p_runs) =>
                      p_runs[i].res.st \in {"ok", "nonzero", "notfound", "timeout"}
        /\ p_pc = "returned" => Len(p_runs) >= 1
        /\ Len(p_runs) >= 1 =>
               LET res == LastRun.res
                   found == res.st = "ok" /\ MacLinesOf(res.out, p_ip) # {}
               IN  /\ found =>
                          /\ p_pc = "returned"
                          /\ p_ret.online = TRUE
                          /\ p_ret.mac =
                                 [id |-> res.out[FirstMacLine(res.out, p_ip)].mac.id,
                                  sep |-> ":", case |-> "upper"]
                   /\ ~found =>
                          /\ p_ret = Ret(FALSE, NoMac)
                          /\ (res.st \in {"ok", "nonzero", "notfound", "timeout"}
                                 /\ Len(p_runs) < 3) =>
                                 p_pc = <<"arp -n", "arp -a", "ip neighbor">>[Len(p_runs) + 1]
                          /\ Len(p_runs) = 3 => p_pc = "returned"

C25_Witness ==
    /\ p_call = "get_mac_from_arp_table"
    /\ p_pc = "returned"
    /\ p_ip = Addr10
    /\ Len(p_runs) = 3
    /\ p_runs[1].res.st = "notfound"
    /\ p_runs[2].res.st = "timeout"
    /\ Len(p_runs[3].res.out) = 2
    /\ p_runs[3].res.out[1].addr = Addr1
    /\ p_runs[3].res.out[1].mac.id = "B"
    /\ p_runs[3].res.out[2].mac = [id |-> "A", sep |-> "-", case |-> "lower"]
    /\ p_ret = Ret(TRUE, [id |-> "A", sep |-> ":", case |-> "upper"])

-----------------------------------------------------------------------------
(* Further claims about range resolution (SpecRange).                      *)

\* The gateway candidate a single line offers under the three patterns.
LineGateway(line) == ScanLine(line, NoGateway).gw

GatewayLines(out) == {i \in 1..Len(out) : LineGateway(out[i]) # NoGateway}

\* The candidate of the first line of out that offers one.
FirstGatewayIn(out) ==
    IF GatewayLines(out) = {} THEN NoGateway
    ELSE LineGateway(out[CHOOSE i \in GatewayLines(out) :
                             \A j \in GatewayLines(out) : i <= j])

\* The runs that exited with status 0 and printed a gateway candidate.
GatewayRuns ==
    {k \in 1..Len(route_runs) :
        /\ route_runs[k].res.st = "ok"
        /\ FirstGatewayIn(route_runs[k].res.out) # NoGateway}

\* C26: in auto mode the gateway used is the candidate of the first line,
\* in line order, that offers one in the output of the first route command
\* that succeeded with one; no later line and no later command replaces it.
C26_FirstGatewayWins ==
    (settings.network_range = AutoRange
        /\ gnr_pc \in {"convert", "returned", "parsed"}) =>
        IF GatewayRuns = {} THEN gateway = NoGateway
        ELSE /\ GatewayRuns = {Len(route_runs)}
             /\ gateway = FirstGatewayIn(route_runs[Len(route_runs)].res.out)

\* C27: an explicit network_range is returned unchanged and no route
\* command is run; in auto mode a call that found no gateway, or a gateway
\* that does not have four dot-separated parts, returns 192.168.1.0/24.
C27_RangeResolutionCases ==
    GnrReturned =>
        /\ settings.network_range # AutoRange =>
               /\ network_range = settings.network_range
               /\ route_runs = <<>>
        /\ (settings.network_range = AutoRange
               /\ (gateway = NoGateway \/ Len(gateway) # 4)) =>
               network_range = <<"192", "168", "1", "0/24">>
        /\ (settings.network_range = AutoRange
               /\ gateway # NoGateway /\ Len(gateway) = 4) =>
               network_range = <<gateway[1], gateway[2], gateway[3], "0/24">>

C27_Witness ==
    /\ settings.network_range = AutoRange
    /\ gnr_pc = "returned"
    /\ gateway = <<"On-link">>
    /\ network_range = <<"192", "168", "1", "0/24">>

-----------------------------------------------------------------------------
(* C28: the pre-population phase.                                          *)

\* The hosts whose ping process was started and not yet waited for.
Unwaited == {h \in DOMAIN proc : proc[h].st \in {"running", "exited"}}

PopulateRunning == pop_pc \in {"loop", "batch_wait", "final_wait"}

\* The batch discipline of populate_arp_table, which holds on every path: at
\* most one process per host, at most the limit of processes not waited
\* for, and every process not waited for belongs to the current batch.
BatchDiscipline ==
    /\ \A h \in DOMAIN proc : proc[h].n <= 1
    /\ Cardinality(Unwaited) <= ProcLimit
    /\ PopulateRunning =>
          \A h \in Unwaited : \E i \in 1..Len(processes) : processes[i] = h

\* C28: populate_arp_table starts at most one ping process per host, never
\* has more than the limit of processes started and not yet waited for,
\* has waited for a whole batch before it starts the next one, and when the
\* first scan_ip thread starts the call has returned with every process it
\* started waited for.
C28_PopulateBeforeScan ==
    /\ BatchDiscipline
    /\ pop_pc = "threads" => Unwaited = {}

-----------------------------------------------------------------------------
(* C29: the cached-address fast path of check_device_status.               *)

\* The probes of the address the neighbor cache gave, in the order made.
CachedProbes == SelectSeq(st_probes, LAMBDA p : p.range = 0)

\* The last probe of the call was one of the cached address and reported
\* the device online.
CachedProbeSucceeded ==
    /\ st_probes # <<>>
    /\ st_probes[Len(st_probes)].range = 0
    /\ st_last.online

\* The targeted range scan has been started (line 378 was reached).
RangeScanStarted == st_pc \in {"resolve", "ranges"} \/ st_ranges # <<>>

\* C29: when get_ip_from_mac gave an address, the methods are tried on that
\* one address in the order of discovery_methods, the call returns True at
\* the first success and the targeted range scan is not started; the range
\* scan is started exactly when no address was found or every method was
\* tried without success.
C29_CachedAddressFastPath ==
    LET known == KnownMethods(settings.discovery_methods)
    IN  /\ Len(CachedProbes) <= Len(known)
        /\ \A i \in 1..Len(CachedProbes) :
              /\ CachedProbes[i].kind = known[i]
              /\ st_probes[i] = CachedProbes[i]
        /\ st_ip = NoValue => CachedProbes = <<>>
        /\ CachedProbeSucceeded =>
              /\ st_pc = "returned" /\ st_ret = TRUE
              /\ ~RangeScanStarted /\ RangeProbes = <<>>
        /\ RangeScanStarted =>
              \/ st_ip = NoValue
              \/ /\ Len(CachedProbes) = Len(known)
                 /\ st_pc = "resolve" => ~CachedProbeSucceeded
        /\ (st_pc = "returned" /\ ~RangeScanStarted) => CachedProbeSucceeded
        /\ (st_pc = "methods" /\ st_mi > Len(settings.discovery_methods))
              => Len(CachedProbes) = Len(known) /\ ENABLED StMethodsDone

\* The second method of the list succeeded on the cached address after the
\* first one failed, and the call returned True without a range scan.
C29_Witness ==
    /\ st_pc = "returned" /\ st_ret = TRUE
    /\ st_ip # NoValue
    /\ Len(CachedProbes) = 2
    /\ st_last.online
    /\ RangeProbes = <<>>

-----------------------------------------------------------------------------
(* C30: the collection of the results of the scan_ip threads.              *)

\* The positions of discovered_devices that hold the entry of host h.
EntriesOf(h) == {i \in 1..Len(discovered) : discovered[i].ip_address = h}

\* C30: no result is lost or duplicated by the concurrent collection: every
\* host whose scan_ip call appended has exactly one entry in the list, the
\* entry that call built, no other host has one, and the list the sweep
\* returns after its last join loop is that list, returned when no thread
\* is running any more (the error path of line 352 returns an empty list).
C30_NoResultLostOrDuplicated ==
    /\ \A h \in DOMAIN scan_log :
          /\ Cardinality(EntriesOf(h)) = IF scan_log[h].appended THEN 1 ELSE 0
          /\ \A i \in EntriesOf(h) : discovered[i] = Entry(h, scan_log[h].info)
    /\ \A i \in 1..Len(discovered) : discovered[i].ip_address \in DOMAIN scan_log
    /\ main_pc = "done" =>
          IF next_ip > NumHosts
          THEN /\ sweep_ret = discovered
               /\ \A h \in DOMAIN thr : thr[h] # "running"
          ELSE sweep_ret = <<>>

\* Two threads of one batch ran at the same time (the second one started
\* appended first) and both entries are in the list the sweep returned.
C30_Witness ==
    /\ main_pc = "done"
    /\ Len(sweep_ret) >= 2
    /\ sweep_ret[1].ip_address = 2
    /\ sweep_ret[2].ip_address = 1

-----------------------------------------------------------------------------
(* C21: absent external tools.                                             *)

Missing == Failed("notfound")

\* Where a probe call stands after the command cmd was found missing: at
\* its next alternative, or at its return.
AfterMissing(cmd) ==
    IF cmd = "arping" THEN "arp_a"
    ELSE IF cmd = "arp_a" THEN "arp_n"
    ELSE IF cmd = arp_commands[1] THEN arp_commands[2]
    ELSE IF cmd = arp_commands[2] THEN arp_commands[3]
    ELSE "returned"

\* get_network_range after its latest route command was found missing: it
\* stands at the next command, or past the loop when there is none, and a
\* call in which every command was missing returns the fallback range.
RangeToleratesMissing ==
    LET n == Len(route_runs)
    IN  /\ gnr_pc # "raised"
        /\ (n > 0 /\ route_runs[n].res = Missing /\ gnr_pc = "loop") =>
              cmd_i = n + 1 /\ cmd_i <= Len(route_commands)
        /\ (n > 0 /\ route_runs[n].res = Missing /\ gnr_pc # "loop") =>
              n = Len(route_commands)
        /\ (/\ gnr_pc \in {"returned", "parsed"}
            /\ settings.network_range = AutoRange
            /\ \A k \in 1..n : route_runs[k].res = Missing) =>
              network_range = common_ranges[1]

\* A probe call after the latest command it ran was found missing.
ProbeToleratesMissing ==
    LET n == Len(p_runs)
    IN  /\ p_pc # "raised"
        /\ (n > 0 /\ p_runs[n].res.st = "notfound") =>
              /\ p_pc = AfterMissing(p_runs[n].cmd)
              /\ p_ret = Ret(FALSE, NoMac)

\* The steps of the operations whose runs the state does not record:
\* get_ip_from_mac gives None, after which check_device_status goes on to
\* its range scan, and populate_arp_table goes on to the Windows form of
\* ping, or to the next host without a process.
UnrecordedStepsTolerateMissing ==
    /\ \A mac \in StatusMacs, pf \in Platforms :
          GetIpStep(Missing, mac, pf) = [pc |-> "returned", ip |-> NoValue]
    /\ \A o \in PopenOutcomes :
          SpawnFor(<<"notfound", o>>) =
              [cmd |-> IF o = "started" THEN ping_forms[2] ELSE "none",
               raised |-> o = "oserror"]
    /\ pop_pc \in {"idle", "loop", "batch_wait", "final_wait", "returned",
                   "threads"}
    /\ st_pc \in {"idle", "get_ip", "methods", "resolve", "ranges",
                  "returned", "blocked"}
    /\ (st_pc \in {"methods", "resolve", "ranges"} /\ st_ip = NoValue) =>
          st_probes = RangeProbes

\* C21: an absent external tool is never a hard failure: whichever tools
\* are missing, get_network_range, ping_device, arping_device,
\* get_mac_from_arp_table, populate_arp_table and check_device_status go on
\* to their next alternative or to a negative or empty result, and none of
\* them raises.
C21_MissingToolTolerated ==
    /\ RangeToleratesMissing
    /\ ProbeToleratesMissing
    /\ UnrecordedStepsTolerateMissing

\* arping_device with arping and arp both absent: the three commands were
\* tried in turn and the call returned (False, None).
C21_Witness ==
    /\ p_call = "arping_device"
    /\ p_pc = "returned"
    /\ Len(p_runs) = 3
    /\ \A k \in 1..3 : p_runs[k].res.st = "notfound"
    /\ p_ret = Ret(FALSE, NoMac)

-----------------------------------------------------------------------------
(* C22: names in discovery_methods other than 'ping' and 'arping'.         *)

\* The names of discovery_methods the loop of line 368 has passed: up to
\* st_mi when the call returned from inside the loop, before it otherwise.
MethodsPassed ==
    LET methods == settings.discovery_methods
        n == IF st_pc = "returned" /\ CachedProbeSucceeded THEN st_mi
             ELSE IF st_mi - 1 <= Len(methods) THEN st_mi - 1
             ELSE Len(methods)
    IN  SubSeq(methods, 1, n)

\* C22: a name in discovery_methods other than 'ping' and 'arping' is
\* ignored by the sweep and by the status check.  One scan_ip call does,
\* under every environment, what it does with the name removed from the
\* list: the same tests, record, log calls, backfill and end of thread.
\* The status check has made exactly one probe of the cached address for
\* each 'ping' or 'arping' it has passed in the list and none for another
\* name, and passing a name raises nothing.
C22_UnknownMethodIgnored ==
    LET methods == settings.discovery_methods
        known == KnownMethods(methods)
    IN  /\ h_pc = "done" =>
              LET t == TryMethods(known, 1, h_env, <<>>,
                                  DeviceInfo(FALSE, NoValue, NoMac, NoValue))
              IN  /\ h_out = scan_ip(known, h_env)
                  /\ h_calls = LogCalls(Backfill(t.info, h_env), h_env)
                  /\ h_backfill = BackfillCalls(t.info, h_env)
                  /\ \A j \in 1..Len(h_out.tried) :
                        h_out.tried[j].method \in {"ping", "arping"}
        /\ st_pc \in {"methods", "resolve", "ranges", "returned"} =>
              /\ st_ip # NoValue =>
                    Len(CachedProbes) = Len(KnownMethods(MethodsPassed))
              /\ \A i \in 1..Len(CachedProbes) :
                    CachedProbes[i].kind = KnownMethods(MethodsPassed)[i]
        /\ \A i \in 1..Len(st_probes) :
              st_probes[i].kind \in {"ping", "arping"}
        /\ (st_pc = "methods" /\ st_mi <= Len(methods)) => ENABLED StTryMethod

\* A scan_ip call under the list ['upnp', 'arping'] for a host that would
\* have answered a ping: no ping was made and arping found the host.
C22_Witness ==
    /\ h_pc = "done"
    /\ settings.discovery_methods = <<"upnp", "arping">>
    /\ h_env.ping.online
    /\ h_out.info.is_online
    /\ h_out.info.discovery_method = "arping"
    /\ Len(h_out.tried) = 1

-----------------------------------------------------------------------------
(* C31: the threads of a sweep that has returned.                          *)

\* C31: when scan_network_range has returned, on the normal path or on the
\* error path that returns an empty list, no scan_ip thread of the sweep is
\* still running, so that nothing is appended after the return.
C31_NoThreadOutlivesSweep ==
    main_pc = "done" => Running = {}

-----------------------------------------------------------------------------
(* C32: the neighbor-table line a returned MAC is taken from.              *)

\* C32: the MAC that the arp fallback of arping_device or
\* get_mac_from_arp_table returns for an address comes from a line of the
\* neighbor table whose address is exactly that address, never from the
\* line of an address that only contains it.
C32_MacFromLineOfExactAddress ==
    (/\ p_call \in {"arping_device", "get_mac_from_arp_table"}
     /\ p_pc = "returned"
     /\ p_ret.online
     /\ Len(p_runs) >= 1
     /\ LastRun.cmd # "arping") =>
        LET out == LastRun.res.out
        IN  /\ MacLinesOf(out, p_ip) # {}
            /\ out[FirstMacLine(out, p_ip)].addr = p_ip

-----------------------------------------------------------------------------
(* C33: the form of the MAC addresses the engine hands out.                *)

\* Upper-case, colon-separated.
Canonical(m) == m.sep = ":" /\ m.case = "upper"

\* C33: every MAC that arping_device or get_mac_from_arp_table returns, and
\* so every MAC the backfill of scan_ip obtains and every mac_address of
\* the record scan_ip builds, is upper-case and colon-separated, whatever
\* form the tool printed.
C33_MacsAreCanonical ==
    /\ (p_call \in {"arping_device", "get_mac_from_arp_table"}
            /\ p_ret.mac # NoMac) => Canonical(p_ret.mac)
    /\ \A i \in 1..Len(h_backfill) :
          h_backfill[i].ret.mac # NoMac => Canonical(h_backfill[i].ret.mac)
    /\ (h_pc = "done" /\ h_out.info.mac_address # NoMac) =>
          Canonical(h_out.info.mac_address)

\* get_mac_from_arp_table returned the MAC of a line that shows it in the
\* lower-case hyphen form.
C33_Witness ==
    /\ p_call = "get_mac_from_arp_table"
    /\ p_pc = "returned"
    /\ p_ret.online
    /\ LastRun.res.out[FirstMacLine(LastRun.res.out, p_ip)].mac =
           [id |-> "A", sep |-> "-", case |-> "lower"]
    /\ p_ret.mac = [id |-> "A", sep |-> ":", case |-> "upper"]

-----------------------------------------------------------------------------
(* C34: what a round of the status worker writes and emits.                *)

MacsOf(list, field) == {list[k][field] : k \in 1..Len(list)}

\* The writes of a round: made only for a checked status that differs from
\* the stored one, storing that status, keeping last_seen on a transition
\* to offline and changing it only on a transition to online; a device that
\* was not written is stored as the round found it.
WritesOnlyTransitions ==
    /\ \A k \in 1..Len(wk_writes) :
          LET w == wk_writes[k]
          IN  /\ w.checked # w.before.is_online
              /\ w.after.is_online = w.checked
              /\ ~w.checked => w.after.last_seen = w.before.last_seen
              /\ w.after.last_seen # w.before.last_seen =>
                     w.checked /\ ~w.before.is_online
    /\ wk_pc \in {"devices", "sleep", "failed"} =>
          \A i \in 1..Len(tracked) :
              tracked[i].mac_address \notin MacsOf(wk_writes, "mac") =>
                  stored[tracked[i].mac_address] =
                      Row(tracked[i].is_online, tracked[i].last_seen)

\* C34: in each round of discovery_worker a tracked device's stored
\* is_online is written only when the checked status differs from the
\* stored one, the device is in the update the round emits exactly in that
\* case, and last_seen is kept on a transition to offline and changes only
\* on a transition to online.
C34_WorkerWritesAndEmitsTransitions ==
    /\ WritesOnlyTransitions
    /\ wk_pc \in {"sleep", "failed"} =>
          MacsOf(wk_emitted, "mac_address") = MacsOf(wk_writes, "mac")

-----------------------------------------------------------------------------
(* C35: convergence of the migrations.                                     *)

MigrationCallRunning == mg_pc.at \notin {"idle", "start"}

\* C35: from any recorded version 0..3, also after a run that applied a
\* migration and did not record it, an initialize() call applies migrations
\* in increasing version order and none whose version is at most the
\* version recorded when it began; when it returns the recorded version is
\* 3 and the schema holds all three migrations; a call that begins at
\* version 3 changes nothing.
C35_MigrationsConverge ==
    MigrationCallRunning =>
        /\ \A k \in 1..Len(mg_applied) : mg_applied[k] > mg_start.version
        /\ \A k \in 1..(Len(mg_applied) - 1) :
              mg_applied[k] < mg_applied[k + 1]
        /\ mg_pc.at = "done" =>
              /\ RecordedVersion(recorded) = LatestVersion
              /\ schema = 1..LatestVersion
        /\ mg_start.version = LatestVersion =>
              /\ mg_applied = <<>>
              /\ recorded = mg_start.recorded
              /\ schema = mg_start.schema

====
